---- MODULE Spec2Model ----
\* Concurrent crawl orchestrator of crawl_agent: CrawlHandler.handle and
\* _crawl_bfs (level-synchronous BFS over a thread pool), the page worker
\* _process_page (fetch, clean, analyze, download), the link extractor, the
\* index store and the persisted crawl history.
EXTENDS Integers, Sequences, FiniteSets, TLC

\* ---------------------------------------------------------------- bounds

\* max_depth ranges over 0..MaxDepth
MaxDepth == 2
\* the indices the gateway names range over 0..MaxIndex
MaxIndex == 2
\* CrawlHandler.MAX_WORKERS (128 in the source) is 1 or MAX_WORKERS, scaled
\* to the levels the bounds above can produce: a process runs with one
\* value of it, worker_limit
MAX_WORKERS == 2

\* -------------------------------------------------------------- constants

\* WebClient.max_retries
max_retries == 3
\* WebClient.__init__: delay = 1.0
default_delay == 1
\* HTMLCleaner.max_links and the slice links[:100] of _analyze_page 
max_links == 200
analyze_links_cap == 100

\* ------------------------------------------------------------------ URLs

\* A URL scheme://host/name.ext with an optional trailing slash and an
\* optional query string.
U(h, n, e, s, q) == [host |-> h, name |-> n, ext |-> e, slash |-> s, query |-> q]

\* WebClient.normalize_url: keep scheme, netloc and path, strip the trailing
\* slash.  HTMLCleaner._extract_links builds the same string (line 93).
normalize_url(url) == [url EXCEPT !.query = FALSE, !.slash = FALSE]

\* HTMLCleaner.DOWNLOAD_EXTENSIONS (the ones the model's URLs use)
DOWNLOAD_EXTENSIONS == {".csv", ".zip"}

\* HTMLCleaner._is_download_link
_is_download_link(url) == url.ext \in DOWNLOAD_EXTENSIONS

\* urlparse(url).netloc
netloc(url) == url.host

\* the URLs of the modelled web
RootA == U("ex.org", "a", "", FALSE, FALSE)
RootASlash == U("ex.org", "a", "", TRUE, FALSE)
PageB == U("ex.org", "b", "", FALSE, FALSE)
PageC == U("ex.org", "c", "", FALSE, FALSE)
PageCQuery == U("ex.org", "c", "", FALSE, TRUE)
PageX == U("ex.org", "x", "", FALSE, FALSE)
PageOther == U("cdn.net", "p", "", FALSE, FALSE)
FileD == U("ex.org", "d", ".csv", FALSE, FALSE)
FileE == U("cdn.net", "e", ".zip", FALSE, FALSE)
\* a second site: its root M lists the pages P and Q, which offer one file
RootM == U("ex.org", "m", "", FALSE, FALSE)
PageP == U("ex.org", "p", "", FALSE, FALSE)
PageQ == U("ex.org", "q", "", FALSE, FALSE)

\* the root URLs intent resolution may return
RootURLs == {RootASlash}

\* sequences over S of length at most n
SeqsUpTo(S, n) == UNION {[1..k -> S] : k \in 0..n}

\* The modelled web: the hrefs of the <a> tags of each page, urljoin already
\* applied.  The root A links B (twice), C and a page of another host; B
\* links X and two files, one of them on another host; C links X and the
\* root; X links B.  On the second site M links P and Q, and each of them
\* links the file D.
Web(url) ==
    CASE normalize_url(url) = RootA -> <<PageB, PageCQuery, PageB, PageOther>>
      [] normalize_url(url) = PageB -> <<FileD, PageX, FileE>>
      [] normalize_url(url) = PageC -> <<PageX, RootA>>
      [] normalize_url(url) = RootM -> <<PageP, PageQ>>
      [] normalize_url(url) \in {PageP, PageQ} -> <<FileD>>
      [] OTHER -> <<PageB>>

\* ------------------------------------------------------ link extraction

Link(url, type) == [url |-> url, type |-> type]

RECURSIVE ScanAnchors(_, _, _, _, _)
\* the for loop of HTMLCleaner._extract_links over the anchors from i on:
\* normalize, skip what was seen, drop cross-domain page links, classify
ScanAnchors(anchors, i, base_url, same_domain_only, seen_urls) ==
    IF i > Len(anchors) THEN <<>>
    ELSE LET normalized_url == normalize_url(anchors[i])
             rest(seen) == ScanAnchors(anchors, i + 1, base_url, same_domain_only, seen)
         IN  IF normalized_url \in seen_urls THEN rest(seen_urls)
             ELSE IF /\ same_domain_only
                     /\ netloc(anchors[i]) # netloc(base_url)
                     /\ ~_is_download_link(normalized_url)
                  THEN rest(seen_urls \cup {normalized_url})
             ELSE <<Link(normalized_url,
                         IF _is_download_link(normalized_url)
                         THEN "download" ELSE "page")>>
                  \o rest(seen_urls \cup {normalized_url})

OfType(links, type) == SelectSeq(links, LAMBDA l : l.type = type)

Take(s, n) == SubSeq(s, 1, IF n < Len(s) THEN n ELSE Len(s))

\* (variant: the links are cut at max_links in the order of the page)
HTMLCleaner_extract_links_PlainCut(self, a_tags, base_url, same_domain_only) ==
    Take(ScanAnchors(a_tags, 1, base_url, same_domain_only, {}), self.max_links)

\* (variant: with same_domain_only the download links of other hosts are
\* dropped as well)
HTMLCleaner_extract_links_NoForeign(self, a_tags, base_url, same_domain_only) ==
    LET scanned == ScanAnchors(a_tags, 1, base_url, same_domain_only, {})
        links == SelectSeq(scanned, LAMBDA l :
                     same_domain_only => netloc(l.url) = netloc(base_url))
        result == Take(OfType(links, "download"), self.max_links)
        remaining == self.max_links - Len(result)
    IN  IF remaining > 0
        THEN result \o Take(OfType(links, "page"), remaining)
        ELSE result

\* HTMLCleaner._extract_links of the cleaner self: download links first,
\* page links in the rest of the max_links budget
HTMLCleaner_extract_links(self, a_tags, base_url, same_domain_only) ==
    LET links == ScanAnchors(a_tags, 1, base_url, same_domain_only, {})
        result == Take(OfType(links, "download"), self.max_links)
        remaining == self.max_links - Len(result)
    IN  IF remaining > 0
        THEN result \o Take(OfType(links, "page"), remaining)
        ELSE result

\* _extract_links of the handler's cleaner, HTMLCleaner()
_extract_links(a_tags, base_url, same_domain_only) ==
    HTMLCleaner_extract_links([max_links |-> max_links], a_tags, base_url,
                              same_domain_only)

\* ------------------------------------------------- the classifier gateway

\* A resource name as the gateway returns it: a string (its characters), or
\* a JSON value that is no string (null, a number).
StrName(chars) == [str |-> TRUE, chars |-> chars]
NonStringName == [str |-> FALSE, chars |-> <<>>]
ResourceNames == {StrName(<<"N", " ", "1">>), NonStringName}

\* the indices the gateway may name: in range or past the end of a list
Indices == 0..MaxIndex

\* the index lists of a gateway response: two entries at most, listed in
\* non-decreasing order (an index may be named twice)
IndexLists ==
    {s \in SeqsUpTo(Indices, 2) : \A i, j \in DOMAIN s : i < j => s[i] <= s[j]}

\* the "resources" arrays of a gateway response (one entry at most)
ResourceArrays ==
    {<<>>} \cup {<<[name |-> n, download_indices |-> d]>> :
                    n \in ResourceNames, d \in IndexLists}

\* What LLMClient.chat_json does: "error" when it raises (transport error
\* after the retries, or a reply that holds no JSON), "misshapen" when it
\* returns JSON that is not the object _analyze_page reads, "json" otherwise.
Responses ==
    {[kind |-> "error", resources |-> <<>>, follow_indices |-> <<>>],
     [kind |-> "misshapen", resources |-> <<>>, follow_indices |-> <<>>]}
    \cup {[kind |-> "json", resources |-> r, follow_indices |-> f] :
            r \in ResourceArrays, f \in IndexLists}

\* (variant: the test is idx < len only, and a negative index counts from
\* the end of the list)
RECURSIVE PickValid_NoLowerBound(_, _, _)
PickValid_NoLowerBound(indices, i, links) ==
    IF i > Len(indices) THEN <<>>
    ELSE (IF indices[i] < Len(links) /\ Len(links) + indices[i] >= 0
          THEN <<links[IF indices[i] >= 0 THEN indices[i] + 1
                       ELSE Len(links) + indices[i] + 1].url>>
          ELSE <<>>)
         \o PickValid_NoLowerBound(indices, i + 1, links)

\* the list comprehension over idx with the range test of _analyze_page
RECURSIVE PickValid(_, _, _)
PickValid(indices, i, links) ==
    IF i > Len(indices) THEN <<>>
    ELSE (IF 0 <= indices[i] /\ indices[i] < Len(links)
          THEN <<links[indices[i] + 1].url>> ELSE <<>>)
         \o PickValid(indices, i + 1, links)

RECURSIVE ValidateResources(_, _, _)
\* validated_resources of _analyze_page: a resource is kept when at least
\* one of its indices is valid
ValidateResources(resources, i, download_links) ==
    IF i > Len(resources) THEN <<>>
    ELSE LET valid_urls == PickValid(resources[i].download_indices, 1, download_links)
         IN  (IF valid_urls # <<>>
              THEN <<[name |-> resources[i].name, download_urls |-> valid_urls]>>
              ELSE <<>>)
             \o ValidateResources(resources, i + 1, download_links)

EmptyAnalysis == [resources |-> <<>>, follow_links |-> <<>>]

\* download_links and page_links of _analyze_page (lines 264-272): the
\* first 100 links, split by type; their positions are the indices shown
\* to the gateway
OfferedLinks(page_links_and_downloads, type) ==
    OfType(Take(page_links_and_downloads, analyze_links_cap), type)

\* variant of _analyze_page: a failed gateway call falls back to following
\* every page link
_analyze_page_FollowAllOnError(links, response) ==
    LET considered == Take(links, analyze_links_cap)
        download_links == OfType(considered, "download")
        page_links == OfType(considered, "page")
    IN  IF response.kind = "error"
        THEN [resources |-> <<>>,
              follow_links |-> [k \in DOMAIN page_links |-> page_links[k].url]]
        ELSE [resources |-> ValidateResources(response.resources, 1, download_links),
              follow_links |-> PickValid(response.follow_indices, 1, page_links)]

\* (variant: the follow indices are resolved in the list of all links offered)
_analyze_page_FollowAnyLink(links, response) ==
    LET download_links == OfferedLinks(links, "download")
        considered == Take(links, analyze_links_cap)
    IN  IF response.kind = "error" THEN EmptyAnalysis
        ELSE [resources |-> ValidateResources(response.resources, 1, download_links),
              follow_links |-> PickValid(response.follow_indices, 1, considered)]

\* CrawlHandler._analyze_page for a gateway response of kind "error" or
\* "json" ("misshapen" raises out of it)
_analyze_page(links, response) ==
    LET download_links == OfferedLinks(links, "download")
        page_links == OfferedLinks(links, "page")
    IN  IF response.kind = "error" THEN EmptyAnalysis
        ELSE [resources |-> ValidateResources(response.resources, 1, download_links),
              follow_links |-> PickValid(response.follow_indices, 1, page_links)]

\* ------------------------------------------------ names, paths, the index

\* str.isalnum() on the characters resource names use
isalnum(c) == c \in {"N", "n", "1"}

\* safe_name of _download_resource: every character that is neither
\* alphanumeric nor "-" nor "_" becomes "_"
safe_name(chars) ==
    [i \in 1..Len(chars) |->
        IF isalnum(chars[i]) \/ chars[i] \in {"-", "_"} THEN chars[i] ELSE "_"]

\* str.lower() followed by replace(" ", "_"), as IndexManager.add applies them
lower_underscore(chars) ==
    [i \in 1..Len(chars) |->
        IF chars[i] = "N" THEN "n" ELSE IF chars[i] = " " THEN "_" ELSE chars[i]]

\* netloc.replace(".", "_") followed by the lower() of the id, on the hosts
\* of the model
domain_of(host) ==
    CASE host \in {"ex.org", "ex_org", "EX.org"} -> "ex_org"
      [] host = "cdn.net" -> "cdn_net"
      [] OTHER -> host

\* the id IndexManager.add derives from source_url and name
dataset_id(dataset) ==
    [domain |-> domain_of(netloc(dataset.source_url)),
     name |-> lower_underscore(dataset.name)]

RECURSIVE IndexPosition(_, _, _)
\* the search of IndexManager.add for a record of the same id (0: none)
IndexPosition(datasets, id, i) ==
    IF i > Len(datasets) THEN 0
    ELSE IF dataset_id(datasets[i]) = id THEN i
    ELSE IndexPosition(datasets, id, i + 1)

\* (variant: the record is appended without the search for its id)
IndexAdd_Append(datasets_, dataset) == Append(datasets_, dataset)

\* IndexManager.add: replace the record of the same id in place, or append
IndexAdd(datasets, dataset) ==
    LET existing_idx == IndexPosition(datasets, dataset_id(dataset), 1)
    IN  IF existing_idx # 0
        THEN [datasets EXCEPT ![existing_idx] = dataset]
        ELSE Append(datasets, dataset)

\* Path(urlparse(url).path).name of _download_resource
filename(url) == <<url.name, url.ext>>

\* ------------------------------------------------------------ the fetcher

\* the outcomes of the attempts of one WebClient.fetch call
AttemptOutcomes == [1..max_retries -> {"ok", "fail"}]

\* WebClient.fetch: the page of the first attempt that succeeds, None after
\* max_retries failed attempts
fetch(attempts, page) ==
    IF \E a \in 1..max_retries : attempts[a] = "ok"
    THEN [none |-> FALSE, text |-> page]
    ELSE [none |-> TRUE, text |-> <<>>]

\* ------------------------------------------------------------------ state

VARIABLES
    pc,                   \* where handle / _crawl_bfs stands
    intent,               \* the result of _parse_intent
    visited_urls,         \* CrawlHandler.visited_urls
    errors,               \* CrawlHandler.errors
    downloaded_resources, \* CrawlHandler.downloaded_resources
    index,                \* the datasets of data/index.json
    meta_json,            \* the meta.json files on disk, by dataset directory
    history_file,         \* data/crawl_history.json
    depth,                \* the loop variable of _crawl_bfs
    current_level,        \* _crawl_bfs: current_level
    fi,                   \* position of the filter loop in current_level
    urls_to_visit,        \* _crawl_bfs: urls_to_visit
    next_level,           \* _crawl_bfs: next_level
    tasks,                \* every future submitted in the run, in submit order
    interrupted,          \* a KeyboardInterrupt was raised in the main thread
    summary,              \* what handle returned
    previous,             \* what the process before this one left undone
    worker_limit,         \* the value of CrawlHandler.MAX_WORKERS in this process
    rejected,             \* the gateway's answer _parse_intent raised on
    now,                  \* time.time(), in seconds
    delay,                \* WebClient.delay
    last_request_time,    \* WebClient.last_request_time
    calls,                \* per calling thread, its call of fetch or download
    requests,             \* the requests the WebClient's session has issued
    url_text,             \* a URL given to WebClient.normalize_url
    url_norm,             \* what normalize_url returned for it, and for
                          \* each result given back to it
    cleaner,              \* an HTMLCleaner: its max_links
    anchors,              \* the hrefs of the a tags of a page it is given
    extracted,            \* what its _extract_links returned
    clean_links,          \* the links of a page given to _analyze_page
    offer,                \* the two indexed lists _analyze_page shows the gateway
    analyzed,             \* what _analyze_page made of the gateway's response
    history_path,         \* the text of data/crawl_history.json
    store,                \* a handler process reading and writing that text
    loaded_from,          \* the file as the latest _load_history found it
    before_save,          \* the file as the latest _save_history found it
    datasets,             \* the "datasets" list of an IndexManager's file
    index_call            \* its latest call of add or delete

web_vars == <<now, delay, last_request_time, calls, requests>>

handler_vars == <<pc, intent, visited_urls, errors, downloaded_resources, index,
                  meta_json, history_file, depth, current_level, fi,
                  urls_to_visit, next_level, tasks, interrupted, summary,
                  previous, worker_limit, rejected>>

analyze_vars == <<clean_links, offer, analyzed>>

history_vars == <<history_path, store, loaded_from, before_save>>

index_vars == <<datasets, index_call>>

lib_vars == <<url_text, url_norm, cleaner, anchors, extracted, analyze_vars,
              history_vars, index_vars>>

vars == <<handler_vars, web_vars, lib_vars>>

main_vars == <<pc, intent, visited_urls, depth, current_level, fi,
               urls_to_visit, next_level, interrupted, summary, history_file,
               previous, worker_limit, rejected, web_vars, lib_vars>>

\* _parse_intent has not raised
NoAnswer == [kind |-> "none"]

NoIntent == [url |-> RootA, max_depth |-> 0]
NoSummary == [pages_visited |-> 0, resources_downloaded |-> 0, errors |-> <<>>]

\* the history files a run may find: none, an unreadable one, or a record
MissingFile == [state |-> "missing", visited_urls |-> {}]
CorruptFile == [state |-> "corrupt", visited_urls |-> {}]
HistoryRecord(urls) == [state |-> "ok", visited_urls |-> urls]
HistoryFiles == {MissingFile, HistoryRecord({PageB})}

\* previous only records, for a process started after an interrupted one,
\* whether that one was interrupted during a level with pages left to fetch
\* and its max_depth; the code does not read it
NoPrevious == [pending |-> FALSE, max_depth |-> 0]

\* the threads that call the WebClient
Threads == 1..2

\* a thread that has not called the WebClient.  kind: fetch or download;
\* attempt: the loop variable; elapsed: the local of _wait_for_delay;
\* wake: the end of the time.sleep in progress.  outcomes, sleeps and seen
\* only record what happened (the outcome of each attempt, the argument of
\* each retry sleep, the number of requests issued when the call read
\* last_request_time); the code does not read them.
NoCall ==
    [pc |-> "idle", kind |-> "", attempt |-> 0, elapsed |-> 0, wake |-> 0,
     result |-> "", outcomes |-> <<>>, sleeps |-> <<>>, seen |-> 0]

\* WebClient.__init__ with the given delay, at a time when the epoch is at
\* least delay seconds ago
WebClientInit(d) ==
    /\ delay = d
    /\ now = d
    /\ last_request_time = 0
    /\ calls = [th \in Threads |-> NoCall]
    /\ requests = <<>>

\* CrawlHandler.__init__, before handle is called
HandlerInit ==
    /\ pc = "parse_intent"
    /\ intent = NoIntent
    /\ visited_urls = {}
    /\ errors = <<>>
    /\ downloaded_resources = <<>>
    /\ index = <<>>
    /\ meta_json = {}
    /\ history_file \in HistoryFiles
    /\ depth = 0
    /\ current_level = <<>>
    /\ fi = 0
    /\ urls_to_visit = <<>>
    /\ next_level = <<>>
    /\ tasks = <<>>
    /\ interrupted = FALSE
    /\ summary = NoSummary
    /\ previous = NoPrevious
    /\ worker_limit \in {1, MAX_WORKERS}
    /\ rejected = NoAnswer

\* a file
File(tokens) == [exists |-> TRUE, text |-> tokens]
NoFile == [exists |-> FALSE, text |-> <<>>]

\* a handler just constructed (__init__, line 80: visited_urls = set())
\* saved only records the set the process before this one saved, when its
\* _save_history ran to its end
NotSaved == [some |-> FALSE, set |-> {}]
NewStore == [pc |-> "start", visited_urls |-> {}, history |-> <<>>, saved |-> NotSaved]

\* no history text is on disk and no handler has read or written one
StoreIdle ==
    /\ history_path = NoFile
    /\ store = NewStore
    /\ loaded_from = NoFile
    /\ before_save = NoFile

\* no URL has been given to normalize_url, the cleaner is the handler's
\* HTMLCleaner() and has been given no page
ToolsIdle ==
    /\ url_text = <<>>
    /\ url_norm = <<>>
    /\ cleaner = [max_links |-> max_links]
    /\ anchors = <<>>
    /\ extracted = <<>>
    /\ clean_links = <<>>
    /\ offer = <<>>
    /\ analyzed = <<>>

\* IndexManager.__init__ on a directory without index.json: no datasets
NoIndexCall == [op |-> "none"]
IndexIdle ==
    /\ datasets = <<>>
    /\ index_call = NoIndexCall

LibIdle == ToolsIdle /\ StoreIdle /\ IndexIdle

\* the handler with its WebClient of the default delay
Init == HandlerInit /\ WebClientInit(default_delay) /\ LibIdle

\* ------------------------------------------------------------------ tasks

\* A future of the level's executor and the frame of its _process_page call.
\* st: queued (submitted, not started), fetch, analyze, download, register,
\* done (returned), raised (ended with an exception).
\* outcome, late, gave and log only record what happened; the code does not
\* read them.  outcome: how the page ended; late: the task started after
\* the interrupt; gave: follow-links of the task were added to next_level;
\* log: per resource entered, its download_urls, the outcome of each file
\* request, the requests made for each file and the numbers of meta.json
\* writes and index adds.
NewTask(url, d) ==
    [url |-> url, depth |-> d, st |-> "queued", links |-> <<>>,
     resources |-> <<>>, ri |-> 0, ui |-> 0, files |-> <<>>,
     follow_links |-> <<>>, collected |-> FALSE,
     outcome |-> "", late |-> FALSE, gave |-> FALSE, log |-> <<>>]

Finished(t) == t.st \in {"done", "raised"}
Running(t) == t.st \in {"fetch", "analyze", "download", "register"}

\* the futures of the level in progress
LevelTasks == {i \in 1..Len(tasks) : tasks[i].depth = depth}

\* max_workers of the level's ThreadPoolExecutor
Min(a, b) == IF a < b THEN a ELSE b
\* (variant: a pool as large as the level)
pool_size_Unbounded == Len(urls_to_visit)

pool_size == Min(worker_limit, Len(urls_to_visit))

\* --------------------------------------------------------- the main thread

\* the gateway's answers to the intent prompt: chat_json raises, or returns
\* an object with or without a url (the empty string at times) and with or
\* without a max_depth
EmptyUrl == U("", "", "", FALSE, FALSE)
Answers ==
    {[kind |-> "error"]} \cup
    {[kind |-> "json", has_url |-> hu, url |-> u, has_depth |-> hd, max_depth |-> d] :
        hu \in BOOLEAN, u \in RootURLs \cup {EmptyUrl},
        hd \in BOOLEAN, d \in 0..MaxDepth}

\* _parse_intent, line 168: setdefault("max_depth", 2)
default_max_depth == 2

\* _parse_intent: ValueError when chat_json raised or the url is missing or
\* empty (lines 159-160, 172-173); else the answer with its defaults set
_parse_intent(result) ==
    IF result.kind = "error" \/ ~result.has_url \/ result.url = EmptyUrl
    THEN [raised |-> TRUE]
    ELSE [raised |-> FALSE,
          url |-> result.url,
          max_depth |-> IF result.has_depth THEN result.max_depth
                        ELSE default_max_depth]

\* handle, lines 146-148: the ValueError of _parse_intent is printed and
\* re-raised
\* (variant: the handler saves the history as the one of KeyboardInterrupt does)
IntentFailure_Saves ==
    /\ pc = "parse_intent"
    /\ \E result \in Answers :
          /\ _parse_intent(result).raised
          /\ rejected' = result
    /\ pc' = "failed"
    /\ history_file' = HistoryRecord(visited_urls)
    /\ UNCHANGED <<previous, worker_limit, web_vars, lib_vars, intent, visited_urls,
                   errors, downloaded_resources, index, meta_json,
                   depth, current_level, fi, urls_to_visit,
                   next_level, tasks, interrupted, summary>>

IntentFailure ==
    /\ pc = "parse_intent"
    /\ \E result \in Answers :
          /\ _parse_intent(result).raised
          /\ rejected' = result
    /\ pc' = "failed"
    /\ UNCHANGED <<previous, worker_limit, web_vars, lib_vars, intent, visited_urls,
                   errors, downloaded_resources, index, meta_json, history_file,
                   depth, current_level, fi, urls_to_visit,
                   next_level, tasks, interrupted, summary>>

\* handle, line 105: _parse_intent returns the intent
ParseIntent ==
    /\ pc = "parse_intent"
    /\ \E result \in Answers :
          LET r == _parse_intent(result)
          IN  /\ ~r.raised
              /\ intent' = [url |-> r.url, max_depth |-> r.max_depth]
    /\ pc' = "load_history"
    /\ UNCHANGED <<previous, worker_limit, rejected, web_vars, lib_vars, visited_urls, errors, downloaded_resources, index, meta_json,
                   history_file, depth, current_level, fi, urls_to_visit,
                   next_level, tasks, interrupted, summary>>

\* (variant: the file is not read)
_load_history_Ignored(file, visited) == visited

\* _load_history: a readable record replaces visited_urls, a missing file
\* leaves it as it is, an unreadable one empties it
_load_history(file, visited) ==
    CASE file.state = "ok" -> file.visited_urls
      [] file.state = "missing" -> visited
      [] OTHER -> {}

\* the head of the for loop of _crawl_bfs: another level is processed when
\* depth is in range(max_depth + 1) and current_level is not empty
\* (variant: range(max_depth + 2))
LoopContinues_OneMore(d, level) == d <= intent.max_depth + 1 /\ level # <<>>

LoopContinues(d, level) == d <= intent.max_depth /\ level # <<>>

\* handle, lines 112-122: load the history and enter _crawl_bfs with
\* current_level = [root_url]
LoadHistory ==
    /\ pc = "load_history"
    /\ visited_urls' = _load_history(history_file, visited_urls)
    /\ current_level' = <<intent.url>>
    /\ depth' = 0
    /\ IF LoopContinues(0, <<intent.url>>)
       THEN pc' = "filter" /\ fi' = 1
       ELSE pc' = "save_history" /\ fi' = 0
    /\ UNCHANGED <<previous, worker_limit, rejected, web_vars, lib_vars, intent, errors, downloaded_resources, index, meta_json,
                   history_file, urls_to_visit, next_level, tasks, interrupted,
                   summary>>

\* one iteration of the filter loop (lines 188-193): check and insert under
\* visited_lock; after the last one, break when nothing is left to visit
\* (lines 195-197) or create the level's executor
\* (variant: the membership check without the insertion)
Filter_NoInsert ==
    /\ pc = "filter"
    /\ LET url == current_level[fi]
           normalized == normalize_url(url)
           kept == IF normalized \notin visited_urls
                   THEN Append(urls_to_visit, url) ELSE urls_to_visit
       IN  /\ visited_urls' = visited_urls
           /\ urls_to_visit' = kept
           /\ IF fi < Len(current_level)
              THEN fi' = fi + 1 /\ pc' = "filter"
              ELSE fi' = 0 /\ pc' = IF kept = <<>> THEN "save_history" ELSE "submit"
    /\ next_level' = <<>>
    /\ UNCHANGED <<previous, worker_limit, rejected, web_vars, lib_vars, intent, errors, downloaded_resources, index, meta_json,
                   history_file, depth, current_level, tasks, interrupted, summary>>

Filter ==
    /\ pc = "filter"
    /\ LET url == current_level[fi]
           normalized == normalize_url(url)
           fresh == normalized \notin visited_urls
           kept == IF fresh THEN Append(urls_to_visit, url) ELSE urls_to_visit
       IN  /\ visited_urls' = IF fresh THEN visited_urls \cup {normalized}
                              ELSE visited_urls
           /\ urls_to_visit' = kept
           /\ IF fi < Len(current_level)
              THEN fi' = fi + 1 /\ pc' = "filter"
              ELSE fi' = 0 /\ pc' = IF kept = <<>> THEN "save_history" ELSE "submit"
    /\ next_level' = <<>>
    /\ UNCHANGED <<previous, worker_limit, rejected, web_vars, lib_vars, intent, errors, downloaded_resources, index, meta_json,
                   history_file, depth, current_level, tasks, interrupted, summary>>

\* one executor.submit of the dict comprehension (lines 205-209)
Submit ==
    /\ pc = "submit"
    /\ LET k == Cardinality(LevelTasks) + 1
       IN  /\ tasks' = Append(tasks, NewTask(urls_to_visit[k], depth))
           /\ pc' = IF k = Len(urls_to_visit) THEN "wait" ELSE "submit"
    /\ UNCHANGED <<previous, worker_limit, rejected, web_vars, lib_vars, intent, visited_urls, errors, downloaded_resources, index,
                   meta_json, history_file, depth, current_level, fi,
                   urls_to_visit, next_level, interrupted, summary>>

\* one iteration of the as_completed loop (lines 211-219): the follow-links
\* of a finished future are added to next_level; an exception is printed
\* (variant: next_level is assigned the follow-links instead of extended)
Collect_Overwrite(i) ==
    /\ pc = "wait"
    /\ i \in LevelTasks
    /\ Finished(tasks[i])
    /\ ~tasks[i].collected
    /\ next_level' = IF tasks[i].st = "done" /\ tasks[i].follow_links # <<>>
                     THEN tasks[i].follow_links ELSE next_level
    /\ tasks' = [tasks EXCEPT
                   ![i].collected = TRUE,
                   ![i].follow_links = <<>>,
                   ![i].gave = tasks[i].st = "done" /\ tasks[i].follow_links # <<>>]
    /\ UNCHANGED <<previous, worker_limit, rejected, web_vars, lib_vars, pc, intent, visited_urls, errors, downloaded_resources, index,
                   meta_json, history_file, depth, current_level, fi,
                   urls_to_visit, interrupted, summary>>

\* (variant: the exception of a future is raised again and ends handle)
Collect_Reraise(i) ==
    /\ pc = "wait"
    /\ i \in LevelTasks
    /\ Finished(tasks[i])
    /\ ~tasks[i].collected
    /\ next_level' = IF tasks[i].st = "done"
                     THEN next_level \o tasks[i].follow_links ELSE next_level
    /\ tasks' = [tasks EXCEPT
                   ![i].collected = TRUE,
                   ![i].follow_links = <<>>,
                   ![i].gave = tasks[i].st = "done" /\ tasks[i].follow_links # <<>>]
    /\ pc' = IF tasks[i].st = "raised" THEN "failed" ELSE pc
    /\ UNCHANGED <<previous, worker_limit, rejected, web_vars, lib_vars, intent, visited_urls, errors, downloaded_resources, index,
                   meta_json, history_file, depth, current_level, fi,
                   urls_to_visit, interrupted, summary>>

Collect(i) ==
    /\ pc = "wait"
    /\ i \in LevelTasks
    /\ Finished(tasks[i])
    /\ ~tasks[i].collected
    /\ next_level' = IF tasks[i].st = "done"
                     THEN next_level \o tasks[i].follow_links ELSE next_level
    /\ tasks' = [tasks EXCEPT
                   ![i].collected = TRUE,
                   ![i].follow_links = <<>>,
                   ![i].gave = tasks[i].st = "done" /\ tasks[i].follow_links # <<>>]
    /\ UNCHANGED <<previous, worker_limit, rejected, web_vars, lib_vars, pc, intent, visited_urls, errors, downloaded_resources, index,
                   meta_json, history_file, depth, current_level, fi,
                   urls_to_visit, interrupted, summary>>

\* as_completed is exhausted and the with block has joined the pool
\* (variant: the loop is left at the first completed future)
LevelComplete_Any == \E i \in LevelTasks : tasks[i].collected

LevelComplete == \A i \in LevelTasks : tasks[i].collected

\* line 221 and the loop head: current_level = next_level, next depth
EndLevel ==
    /\ pc = "wait"
    /\ LevelComplete
    /\ current_level' = next_level
    /\ depth' = depth + 1
    /\ IF LoopContinues(depth + 1, next_level)
       THEN pc' = "filter" /\ fi' = 1
       ELSE pc' = "save_history" /\ fi' = 0
    /\ urls_to_visit' = <<>>
    /\ next_level' = <<>>
    /\ UNCHANGED <<previous, worker_limit, rejected, web_vars, lib_vars, intent, visited_urls, errors, downloaded_resources, index,
                   meta_json, history_file, tasks, interrupted, summary>>

\* _save_history: the file is rewritten with visited_urls
_save_history == HistoryRecord(visited_urls)

\* handle, line 125
SaveHistory ==
    /\ pc = "save_history"
    /\ history_file' = _save_history
    /\ pc' = "summarize"
    /\ UNCHANGED <<previous, worker_limit, rejected, web_vars, lib_vars, intent, visited_urls, errors, downloaded_resources, index,
                   meta_json, depth, current_level, fi, urls_to_visit,
                   next_level, tasks, interrupted, summary>>

\* handle, lines 127-140
Summarize ==
    /\ pc = "summarize"
    /\ summary' = [pages_visited |-> Cardinality(visited_urls),
                   resources_downloaded |-> Len(downloaded_resources),
                   errors |-> errors]
    /\ pc' = "returned"
    /\ UNCHANGED <<previous, worker_limit, rejected, web_vars, lib_vars, intent, visited_urls, errors, downloaded_resources, index,
                   meta_json, history_file, depth, current_level, fi,
                   urls_to_visit, next_level, tasks, interrupted>>

\* KeyboardInterrupt is raised in the main thread, anywhere inside the try
\* of handle.  Inside the with block of _crawl_bfs the executor's __exit__
\* runs first: shutdown(wait=True).
KeyboardInterrupt ==
    /\ pc \in {"parse_intent", "load_history", "filter", "submit", "wait",
               "save_history", "summarize"}
    /\ interrupted' = TRUE
    /\ pc' = IF pc \in {"submit", "wait"} THEN "shutdown" ELSE "interrupt_save"
    /\ UNCHANGED <<previous, worker_limit, rejected, web_vars, lib_vars, intent, visited_urls, errors, downloaded_resources, index,
                   meta_json, history_file, depth, current_level, fi,
                   urls_to_visit, next_level, tasks, summary>>

\* ThreadPoolExecutor.__exit__: shutdown(wait=True) returns when the pool's
\* threads have run every submitted future
\* (variant: shutdown(wait=False), the with block is left at once)
Shutdown_NoWait ==
    /\ pc = "shutdown"
    /\ pc' = "interrupt_save"
    /\ UNCHANGED <<previous, worker_limit, rejected, web_vars, lib_vars, intent, visited_urls, errors, downloaded_resources, index,
                   meta_json, history_file, depth, current_level, fi,
                   urls_to_visit, next_level, tasks, interrupted, summary>>

Shutdown ==
    /\ pc = "shutdown"
    /\ \A i \in LevelTasks : Finished(tasks[i])
    /\ pc' = "interrupt_save"
    /\ UNCHANGED <<previous, worker_limit, rejected, web_vars, lib_vars, intent, visited_urls, errors, downloaded_resources, index,
                   meta_json, history_file, depth, current_level, fi,
                   urls_to_visit, next_level, tasks, interrupted, summary>>

\* handle, lines 142-145: save the history, then re-raise
\* (variant: the interrupt is re-raised without the save)
InterruptSave_NoFlush ==
    /\ pc = "interrupt_save"
    /\ history_file' = history_file
    /\ pc' = "interrupted"
    /\ UNCHANGED <<previous, worker_limit, rejected, web_vars, lib_vars, intent, visited_urls, errors, downloaded_resources, index,
                   meta_json, depth, current_level, fi, urls_to_visit,
                   next_level, tasks, interrupted, summary>>

InterruptSave ==
    /\ pc = "interrupt_save"
    /\ history_file' = _save_history
    /\ pc' = "interrupted"
    /\ UNCHANGED <<previous, worker_limit, rejected, web_vars, lib_vars, intent, visited_urls, errors, downloaded_resources, index,
                   meta_json, depth, current_level, fi, urls_to_visit,
                   next_level, tasks, interrupted, summary>>

\* the pages the interrupted run knew of and did not dispatch: the URLs of
\* the level in progress and, when the next level is within max_depth, the
\* follow-links gathered for it, less the dispatched ones and those of the
\* loaded history
Unfetched ==
    LET norm(urls) == {normalize_url(urls[k]) : k \in DOMAIN urls}
        dispatched == {normalize_url(tasks[i].url) : i \in DOMAIN tasks}
        marked == dispatched \cup norm(urls_to_visit)
        gathered == UNION ({norm(next_level)} \cup
                           {norm(tasks[i].follow_links) : i \in LevelTasks})
        known == IF depth + 1 <= intent.max_depth
                 THEN norm(current_level) \cup gathered
                 ELSE norm(current_level)
    IN  (known \ dispatched) \ (visited_urls \ marked)

\* cli.main once more after a process that was interrupted while a level
\* was in progress: a new CrawlHandler is constructed and handle is called;
\* the history file, the index and the files on disk are what the
\* interrupted process left
Restart ==
    /\ pc = "interrupted"
    /\ tasks # <<>>
    /\ pc' = "parse_intent"
    /\ intent' = NoIntent
    /\ visited_urls' = {}
    /\ errors' = <<>>
    /\ downloaded_resources' = <<>>
    /\ depth' = 0
    /\ current_level' = <<>>
    /\ fi' = 0
    /\ urls_to_visit' = <<>>
    /\ next_level' = <<>>
    /\ tasks' = <<>>
    /\ interrupted' = FALSE
    /\ summary' = NoSummary
    /\ previous' = IF Unfetched # {}
                   THEN [pending |-> TRUE, max_depth |-> intent.max_depth]
                   ELSE NoPrevious
    /\ UNCHANGED <<index, meta_json, history_file, worker_limit, rejected, web_vars, lib_vars>>

\* --------------------------------------------------------- the page worker

\* an entry of CrawlHandler.errors; by and res record the task and the
\* resource that appended it (the code keeps only the text)
ErrorEntry(kind, url, by, res) == [kind |-> kind, url |-> url, by |-> by, res |-> res]

\* the frame of a call that has ended: its locals are gone
Ended(t, st, follow_links, outcome) ==
    [t EXCEPT !.st = st, !.links = <<>>, !.resources = <<>>, !.ri = 0, !.ui = 0,
              !.files = <<>>, !.follow_links = follow_links,
              !.outcome = IF t.outcome = "" THEN outcome ELSE t.outcome]

\* the for loop of _process_page over analysis["resources"] (lines 257-260)
\* at resource ri, and the head of _download_resource (lines 344-355): a
\* name that is no string raises in the join over its characters
EnterResource(t, ri, follow_links) ==
    IF ri > Len(t.resources)
    THEN Ended(t, "done", follow_links, "returned")
    ELSE IF ~t.resources[ri].name.str
    THEN Ended(t, "raised", <<>>, "raised")
    ELSE [t EXCEPT !.st = "download", !.ri = ri, !.ui = 1, !.files = <<>>,
                   !.follow_links = follow_links,
                   !.log = Append(t.log, [urls |-> t.resources[ri].download_urls,
                                          outcomes |-> <<>>, tries |-> <<>>,
                                          meta |-> 0, added |-> 0])]

\* a pool thread takes the next work item from the queue and calls
\* _process_page, which issues the page request
StartTask(i) ==
    /\ i \in LevelTasks
    /\ tasks[i].st = "queued"
    /\ \A j \in LevelTasks : j < i => tasks[j].st # "queued"
    /\ Cardinality({j \in LevelTasks : Running(tasks[j])}) < pool_size
    /\ tasks' = [tasks EXCEPT ![i].st = "fetch", ![i].late = interrupted]
    /\ UNCHANGED <<main_vars, errors, downloaded_resources, index, meta_json>>

\* variant of FetchPage: a failed fetch returns [] without the errors.append
FetchPage_NoLog(i) ==
    /\ i \in DOMAIN tasks
    /\ tasks[i].st = "fetch"
    /\ \E attempts \in AttemptOutcomes :
          LET url == tasks[i].url
              html == fetch(attempts, Web(url))
          IN  IF html.none
              THEN tasks' = [tasks EXCEPT
                               ![i] = Ended(@, "done", <<>>, "fetch_failed")]
              ELSE tasks' = [tasks EXCEPT
                               ![i].st = "analyze",
                               ![i].links = _extract_links(html.text, url, TRUE)]
    /\ UNCHANGED <<main_vars, errors, downloaded_resources, index, meta_json>>

\* _process_page, lines 234-241: web.fetch returns; None is logged and ends
\* the page, a page is cleaned into its links
FetchPage(i) ==
    /\ i \in DOMAIN tasks
    /\ tasks[i].st = "fetch"
    /\ \E attempts \in AttemptOutcomes :
          LET url == tasks[i].url
              html == fetch(attempts, Web(url))
          IN  IF html.none
              THEN /\ errors' = Append(errors, ErrorEntry("fetch", url, i, 0))
                   /\ tasks' = [tasks EXCEPT
                                  ![i] = Ended(@, "done", <<>>, "fetch_failed")]
              ELSE /\ errors' = errors
                   /\ tasks' = [tasks EXCEPT
                                  ![i].st = "analyze",
                                  ![i].links = _extract_links(html.text, url, TRUE)]
    /\ UNCHANGED <<main_vars, downloaded_resources, index, meta_json>>

\* _process_page, lines 247-260: _analyze_page returns the validated
\* analysis (empty when the gateway call failed), or raises and the page is
\* logged; then the first resource is entered
AnalyzePage(i) ==
    /\ i \in DOMAIN tasks
    /\ tasks[i].st = "analyze"
    /\ \E response \in Responses :
          IF response.kind = "misshapen"
          THEN /\ errors' = Append(errors, ErrorEntry("analyze", tasks[i].url, i, 0))
               /\ tasks' = [tasks EXCEPT
                              ![i] = Ended(@, "done", <<>>, "analysis_raised")]
          ELSE LET analysis == _analyze_page(tasks[i].links, response)
                   t == [tasks[i] EXCEPT
                           !.links = <<>>,
                           !.resources = analysis.resources,
                           !.outcome = IF response.kind = "error"
                                       THEN "gateway_failed" ELSE ""]
               IN  /\ errors' = errors
                   /\ tasks' = [tasks EXCEPT
                                  ![i] = EnterResource(t, 1, analysis.follow_links)]
    /\ UNCHANGED <<main_vars, downloaded_resources, index, meta_json>>

\* one request of _download_with_progress (a single requests.get, no retry)
DownloadOutcomes == {"ok", "fail"}

\* _download_with_progress: requests.get is called once, outside the
\* WebClient, and its body streamed to the file; any exception returns False
_download_with_progress(outcome) == [success |-> outcome = "ok", tries |-> 1]

\* what follows the last file of a resource (line 386): register when a file
\* was downloaded, else go on to the next resource
\* (variant: the test of downloaded_files is missing)
AfterFiles_Always(t) == [t EXCEPT !.st = "register"]

AfterFiles(t) ==
    IF t.files # <<>>
    THEN [t EXCEPT !.st = "register"]
    ELSE EnterResource(t, t.ri + 1, t.follow_links)

\* variant of DownloadFile: the loop is left at the first failed file
DownloadFile_StopAtFailure(i) ==
    /\ i \in DOMAIN tasks
    /\ tasks[i].st = "download"
    /\ \E success \in DownloadOutcomes :
          LET t == tasks[i]
              download_urls == t.resources[t.ri].download_urls
              url == download_urls[t.ui]
              t1 == [t EXCEPT
                       !.files = IF success = "ok"
                                 THEN Append(@, [name |-> filename(url)]) ELSE @,
                       !.log[t.ri].outcomes = Append(@, success),
                       !.log[t.ri].tries = Append(@, _download_with_progress(success).tries),
                       !.ui = t.ui + 1]
          IN  /\ errors' = IF success = "ok" THEN errors
                            ELSE Append(errors, ErrorEntry("download", url, i, t.ri))
              /\ tasks' = [tasks EXCEPT
                             ![i] = IF t.ui < Len(download_urls) /\ success = "ok"
                                    THEN t1 ELSE AfterFiles(t1)]
    /\ UNCHANGED <<main_vars, downloaded_resources, index, meta_json>>

\* variant of DownloadFile: the append of a failure works on a copy of
\* errors read before the last append of another thread
DownloadFile_LostUpdate(i) ==
    /\ i \in DOMAIN tasks
    /\ tasks[i].st = "download"
    /\ \E success \in DownloadOutcomes :
          LET t == tasks[i]
              download_urls == t.resources[t.ri].download_urls
              url == download_urls[t.ui]
              entry == ErrorEntry("download", url, i, t.ri)
              t1 == [t EXCEPT
                       !.files = IF success = "ok"
                                 THEN Append(@, [name |-> filename(url)]) ELSE @,
                       !.log[t.ri].outcomes = Append(@, success),
                       !.log[t.ri].tries = Append(@, _download_with_progress(success).tries),
                       !.ui = t.ui + 1]
          IN  /\ errors' = IF success = "ok" THEN errors
                            ELSE IF errors = <<>> THEN <<entry>>
                            ELSE [errors EXCEPT ![Len(errors)] = entry]
              /\ tasks' = [tasks EXCEPT
                             ![i] = IF t.ui < Len(download_urls) THEN t1
                                    ELSE AfterFiles(t1)]
    /\ UNCHANGED <<main_vars, downloaded_resources, index, meta_json>>

\* one iteration of the for loop over download_urls (lines 357-384)
DownloadFile(i) ==
    /\ i \in DOMAIN tasks
    /\ tasks[i].st = "download"
    /\ \E success \in DownloadOutcomes :
          LET t == tasks[i]
              download_urls == t.resources[t.ri].download_urls
              url == download_urls[t.ui]
              t1 == [t EXCEPT
                       !.files = IF success = "ok"
                                 THEN Append(@, [name |-> filename(url)]) ELSE @,
                       !.log[t.ri].outcomes = Append(@, success),
                       !.log[t.ri].tries = Append(@, _download_with_progress(success).tries),
                       !.ui = t.ui + 1]
          IN  /\ errors' = IF success = "ok" THEN errors
                            ELSE Append(errors, ErrorEntry("download", url, i, t.ri))
              /\ tasks' = [tasks EXCEPT
                             ![i] = IF t.ui < Len(download_urls) THEN t1
                                    ELSE AfterFiles(t1)]
    /\ UNCHANGED <<main_vars, downloaded_resources, index, meta_json>>

\* lines 386-415: meta.json is written into the dataset directory, then the
\* record is added to the index and to downloaded_resources under
\* download_lock
Register(i) ==
    /\ i \in DOMAIN tasks
    /\ tasks[i].st = "register"
    /\ LET t == tasks[i]
           resource == t.resources[t.ri]
           dataset_path == safe_name(resource.name.chars)
           dataset_info == [name |-> resource.name.chars,
                            source_url |-> t.url,
                            local_path |-> dataset_path,
                            files |-> t.files]
           t1 == [t EXCEPT !.log[t.ri].meta = @ + 1, !.log[t.ri].added = @ + 1]
       IN  /\ meta_json' = {m \in meta_json : m.local_path # dataset_path}
                           \cup {dataset_info}
           /\ index' = IndexAdd(index, dataset_info)
           /\ downloaded_resources' = Append(downloaded_resources, dataset_info)
           /\ tasks' = [tasks EXCEPT ![i] = EnterResource(t1, t.ri + 1, t.follow_links)]
    /\ UNCHANGED <<main_vars, errors>>

\* ------------------------------------- the WebClient under its callers

\* the clock cap of the WebClient specification and the configured delays
MaxTime == 7
Delays == {1, 3}

\* a thread calls fetch(url) or download(url, save_path)
Call(th) ==
    /\ calls[th].pc = "idle"
    /\ \E kind \in {"fetch", "download"} :
          calls' = [calls EXCEPT ![th].pc = "wait_read", ![th].kind = kind]
    /\ UNCHANGED <<handler_vars, lib_vars, now, delay, last_request_time, requests>>

\* _wait_for_delay, line 40-42: elapsed is computed from the shared
\* timestamp, and the thread sleeps when it is below the delay
WaitRead(th) ==
    /\ calls[th].pc = "wait_read"
    /\ LET elapsed == now - last_request_time
       IN  calls' = [calls EXCEPT
                       ![th].elapsed = elapsed,
                       ![th].seen = Len(requests),
                       ![th].pc = IF elapsed < delay THEN "wait_sleep"
                                  ELSE "wait_write",
                       ![th].wake = IF elapsed < delay
                                    THEN now + (delay - elapsed) ELSE 0]
    /\ UNCHANGED <<handler_vars, lib_vars, now, delay, last_request_time, requests>>

\* time.sleep returns when the time asked for has passed
Wake(th) ==
    /\ calls[th].pc \in {"wait_sleep", "retry_sleep"}
    /\ now >= calls[th].wake
    /\ calls' = [calls EXCEPT
                   ![th].wake = 0,
                   ![th].elapsed = 0,
                   ![th].pc = IF calls[th].pc = "wait_sleep" THEN "wait_write"
                              ELSE "attempt",
                   ![th].attempt = IF calls[th].pc = "wait_sleep" THEN 0
                                   ELSE calls[th].attempt + 1]
    /\ UNCHANGED <<handler_vars, lib_vars, now, delay, last_request_time, requests>>

\* _wait_for_delay, line 43, and the entry of the retry loop
WaitWrite(th) ==
    /\ calls[th].pc = "wait_write"
    /\ last_request_time' = now
    /\ calls' = [calls EXCEPT ![th].pc = "attempt", ![th].attempt = 0,
                              ![th].elapsed = 0]
    /\ UNCHANGED <<handler_vars, lib_vars, now, delay, requests>>

\* what one pass of the try block can end with: the result is returned,
\* requests raises a RequestException, or (download only) writing the file
\* raises OSError
TryOutcomes(kind) ==
    IF kind = "download" THEN {"ok", "RequestException", "OSError"}
    ELSE {"ok", "RequestException"}

\* the seconds slept after the failed attempt numbered attempt (from 0)
\* (variant: one doubling more)
backoff_Doubled(attempt) == 2 ^ (attempt + 1)

backoff(attempt) == 2 ^ attempt

\* one pass of the retry loop: session.get is issued; on success the result
\* is returned; a RequestException is caught, followed by a sleep of
\* 2 ** attempt seconds or, at the last attempt, by the failure value;
\* any other exception leaves the call
Attempt(th) ==
    /\ calls[th].pc = "attempt"
    /\ requests' = Append(requests, [t |-> now, th |-> th,
                                     attempt |-> calls[th].attempt,
                                     seen |-> calls[th].seen])
    /\ \E o \in TryOutcomes(calls[th].kind) :
         LET c == [calls[th] EXCEPT !.outcomes = Append(@, o)]
         IN  calls' = [calls EXCEPT ![th] =
               CASE o = "ok" -> [c EXCEPT !.pc = "returned", !.result = "ok"]
                 [] o = "OSError" -> [c EXCEPT !.pc = "raised", !.result = "raised"]
                 [] OTHER ->
                      IF c.attempt < max_retries - 1
                      THEN [c EXCEPT !.pc = "retry_sleep",
                                     !.wake = now + backoff(c.attempt),
                                     !.sleeps = Append(@, backoff(c.attempt))]
                      ELSE [c EXCEPT !.pc = "returned", !.result = "failed"]]
    /\ UNCHANGED <<handler_vars, lib_vars, now, delay, last_request_time>>

\* a second passes
Tick ==
    /\ now < MaxTime
    /\ now' = now + 1
    /\ UNCHANGED <<handler_vars, lib_vars, delay, last_request_time, calls, requests>>

WebNext ==
    \/ \E th \in Threads : Call(th)
    \/ \E th \in Threads : WaitRead(th)
    \/ \E th \in Threads : Wake(th)
    \/ \E th \in Threads : WaitWrite(th)
    \/ \E th \in Threads : Attempt(th)
    \/ Tick

\* one WebClient of any configured delay, called by the threads
WebInit ==
    /\ HandlerInit /\ history_file = MissingFile /\ worker_limit = MAX_WORKERS
    /\ \E d \in Delays : WebClientInit(d)
    /\ LibIdle

WebSpec == WebInit /\ [][WebNext]_vars

\* --------------------------------------------------- normalize_url on text

\* A URL as text: the token "http://", the host "h", and the characters
\* that follow the host.  What follows the host is empty or begins with
\* "/", "?" or "#" (anything else would belong to the host).
MaxTail == 4
TailChars == {"/", "b", ";", "?", "#"}
Tails ==
    {t \in UNION {[1..n -> TailChars] : n \in 0..MaxTail} :
        t = <<>> \/ t[1] \in {"/", "?", "#"}}
UrlText(tail) == <<"http://", "h">> \o tail

\* str.find(c, start) and str.rfind(c), counting from 1; 0: not found
find(s, c, start) ==
    IF \E k \in start..Len(s) : s[k] = c
    THEN CHOOSE k \in start..Len(s) :
            s[k] = c /\ \A j \in start..(k - 1) : s[j] # c
    ELSE 0
rfind(s, c) ==
    IF \E k \in 1..Len(s) : s[k] = c
    THEN CHOOSE k \in 1..Len(s) : s[k] = c /\ \A j \in (k + 1)..Len(s) : s[j] # c
    ELSE 0
UpTo(s, c) == IF find(s, c, 1) = 0 THEN s ELSE SubSeq(s, 1, find(s, c, 1) - 1)

\* urllib.parse._splitparams: the parameters of the last path segment are
\* cut off at its first ";"
_splitparams(path) ==
    LET start == IF rfind(path, "/") = 0 THEN 1 ELSE rfind(path, "/")
        i == find(path, ";", start)
    IN  IF i = 0 THEN path ELSE SubSeq(path, 1, i - 1)

\* urlparse(url).path: what follows the host, less the fragment (from the
\* first "#"), the query (from the first "?") and the parameters
urlparse_path(url) ==
    _splitparams(UpTo(UpTo(SubSeq(url, 3, Len(url)), "#"), "?"))

\* str.rstrip('/')
RECURSIVE rstrip_slash(_)
rstrip_slash(s) ==
    IF s # <<>> /\ s[Len(s)] = "/" THEN rstrip_slash(SubSeq(s, 1, Len(s) - 1))
    ELSE s

\* WebClient.normalize_url on text: scheme://netloc and the path, without
\* trailing slashes
normalize_url_text(url) == rstrip_slash(SubSeq(url, 1, 2) \o urlparse_path(url))

\* normalize_url is given a URL
GiveUrl ==
    /\ url_text = <<>>
    /\ \E tail \in Tails : url_text' = UrlText(tail)
    /\ UNCHANGED <<handler_vars, web_vars, history_vars, index_vars, analyze_vars, url_norm, cleaner, anchors, extracted>>

\* normalize_url is applied to the URL, then to its own result
Normalize ==
    /\ url_text # <<>>
    /\ Len(url_norm) < 2
    /\ url_norm' = Append(url_norm,
                          normalize_url_text(IF url_norm = <<>> THEN url_text
                                             ELSE url_norm[Len(url_norm)]))
    /\ UNCHANGED <<handler_vars, web_vars, history_vars, index_vars, analyze_vars, url_text, cleaner, anchors, extracted>>

UrlNext == GiveUrl \/ Normalize

UrlSpec == Init /\ [][UrlNext]_vars

\* ------------------------------------------------ the cleaner on its own

\* the bounds of the cleaner specification: max_links of the cleaner and
\* the number of a tags of the page
MaxCap == 3
MaxAnchors == 4

\* the hrefs a page can hold, made absolute
AnchorURLs == {PageB, PageC, PageCQuery, PageOther, FileD, FileE}

\* HTMLCleaner(max_links = n) is constructed
NewCleaner ==
    /\ cleaner = [max_links |-> max_links]
    /\ anchors = <<>>
    /\ \E n \in 1..MaxCap : cleaner' = [max_links |-> n]
    /\ UNCHANGED <<handler_vars, web_vars, history_vars, index_vars, analyze_vars, url_text, url_norm, anchors, extracted>>

\* clean is called with a page
GivePage ==
    /\ anchors = <<>>
    /\ \E a \in SeqsUpTo(AnchorURLs, MaxAnchors) : a # <<>> /\ anchors' = a
    /\ UNCHANGED <<handler_vars, web_vars, history_vars, index_vars, analyze_vars, url_text, url_norm, cleaner, extracted>>

\* clean, line 62: the links of the page are extracted
ExtractLinks ==
    /\ anchors # <<>>
    /\ extracted = <<>>
    /\ \E same_domain_only \in BOOLEAN :
          extracted' = <<[same_domain_only |-> same_domain_only,
                          links |-> HTMLCleaner_extract_links(
                                        cleaner, anchors, RootA, same_domain_only)]>>
    /\ UNCHANGED <<handler_vars, web_vars, history_vars, index_vars, analyze_vars, url_text, url_norm, cleaner, anchors>>

CleanerNext == NewCleaner \/ GivePage \/ ExtractLinks

CleanerSpec == Init /\ [][CleanerNext]_vars

\* ------------------------------------------- _analyze_page on its own

\* the numbers of download links and of page links of the pages analyzed:
\* few, and around the slice of _analyze_page
DownloadCounts ==
    {0, 1, 2, analyze_links_cap - 1, analyze_links_cap, analyze_links_cap + 1}
PageCounts == {0, 1, 2}

\* what clean returns for a page of ex.org with n distinct download links
\* and p distinct page links (n + p <= max_links): the download links, then
\* the page links
LongPage(n, p) ==
    [k \in 1..n |-> Link(U("ex.org", ToString(k), ".zip", FALSE, FALSE), "download")]
    \o [k \in 1..p |-> Link(U("ex.org", ToString(k), "", FALSE, FALSE), "page")]

\* the indices a response may name: negative, small, and around the slice
WideIndices ==
    ((-1)..MaxIndex) \cup {analyze_links_cap - 1, analyze_links_cap}

\* the responses of the gateway with up to two indices per list, in any
\* order
WideResponses ==
    {[kind |-> "error", resources |-> <<>>, follow_indices |-> <<>>],
     [kind |-> "misshapen", resources |-> <<>>, follow_indices |-> <<>>]}
    \cup {[kind |-> "json", resources |-> r, follow_indices |-> f] :
            r \in {<<>>} \cup {<<[name |-> StrName(<<"N">>), download_indices |-> d]>> :
                                  d \in SeqsUpTo(WideIndices, 2)},
            f \in SeqsUpTo(WideIndices, 2)}

\* _process_page, line 241: the cleaner returns the links of the page
CleanPage ==
    /\ clean_links = <<>>
    /\ \E n \in DownloadCounts, p \in PageCounts :
          /\ n + p > 0
          /\ n + p <= max_links
          /\ clean_links' = LongPage(n, p)
    /\ UNCHANGED <<handler_vars, web_vars, history_vars, index_vars, url_text, url_norm, cleaner, anchors,
                   extracted, offer, analyzed>>

\* _analyze_page, lines 264-299: the two lists are built and shown to the
\* gateway with their indices
BuildPrompt ==
    /\ clean_links # <<>>
    /\ offer = <<>>
    /\ offer' = <<[download_links |-> OfferedLinks(clean_links, "download"),
                   page_links |-> OfferedLinks(clean_links, "page")]>>
    /\ UNCHANGED <<handler_vars, web_vars, history_vars, index_vars, url_text, url_norm, cleaner, anchors,
                   extracted, clean_links, analyzed>>

\* _analyze_page, lines 301-340: the gateway answers and the indices are
\* resolved; a response of the wrong shape raises out of _analyze_page
Classify ==
    /\ offer # <<>>
    /\ analyzed = <<>>
    /\ \E response \in WideResponses :
          analyzed' = <<[response |-> response,
                         raised |-> response.kind = "misshapen",
                         result |-> IF response.kind = "misshapen"
                                    THEN EmptyAnalysis
                                    ELSE _analyze_page(clean_links, response)]>>
    /\ UNCHANGED <<handler_vars, web_vars, history_vars, index_vars, url_text, url_norm, cleaner, anchors,
                   extracted, clean_links, offer>>

AnalyzeNext == CleanPage \/ BuildPrompt \/ Classify

AnalyzeSpec == Init /\ [][AnalyzeNext]_vars

\* ------------------------------------------- the history file, as text

\* a run visits at most MaxVisited URLs
MaxVisited == 3

\* the normalized URLs a run may visit
HistoryURLs == {UrlText(<<>>), UrlText(<<"/", "b">>), UrlText(<<"/", "b", "/", "b">>)}

\* JSON values: strings, null, a number, lists of strings, and objects with
\* the keys visited_urls and last_updated, either of which may be absent
JStr(s) == [t |-> "str", s |-> s]
JNull == [t |-> "null"]
JNum == [t |-> "num"]
JList(items) == [t |-> "list", items |-> items]
JAbsent == [t |-> "absent"]
JObject(v, u) == [t |-> "object", visited_urls |-> v, last_updated |-> u]

\* list(s) of a set s: its elements in one of the orders iteration may take
Lists(S) == {l \in [1..Cardinality(S) -> S] : {l[k] : k \in DOMAIN l} = S}

\* _save_history, lines 471-474: the record of the visited set, its list
\* in the order l, and datetime.now().isoformat()
Timestamp == JStr(<<"t">>)
HistoryObject(l) == JObject(JList(l), Timestamp)

\* JSON text, as the sequence of its tokens (commas and colons left out);
\* a token is a sequence of strings
Punct(c) == <<c>>
StrToken(s) == <<"str">> \o s
KeyToken(k) == <<"key", k>>

\* json.dump
ValueTokens(v) ==
    CASE v.t = "list" ->
            <<Punct("[")>> \o [k \in DOMAIN v.items |-> StrToken(v.items[k])]
                \o <<Punct("]")>>
      [] v.t = "str" -> <<StrToken(v.s)>>
      [] v.t = "null" -> <<Punct("null")>>
      [] v.t = "num" -> <<Punct("0")>>
Member(k, v) == IF v.t = "absent" THEN <<>> ELSE <<KeyToken(k)>> \o ValueTokens(v)
json_dump(v) ==
    IF v.t = "object"
    THEN <<Punct("{")>> \o Member("visited_urls", v.visited_urls)
            \o Member("last_updated", v.last_updated) \o <<Punct("}")>>
    ELSE ValueTokens(v)

\* the strings a history file may hold: the URLs and, each a string of its
\* own, the characters of the shortest one
ShortURL == UrlText(<<>>)
Strings == HistoryURLs \cup {<<ShortURL[k]>> : k \in DOMAIN ShortURL}

\* the values a history file may hold
ListsOver(T) ==
    UNION {Lists(S) : S \in {R \in SUBSET T : Cardinality(R) <= MaxVisited}}
JsonScalars == {JNull, JNum, JStr(ShortURL)}
ValuesOver(T) ==
    LET values == {JList(l) : l \in ListsOver(T)} \cup JsonScalars
    IN  values \cup {JObject(v, u) : v \in values \cup {JAbsent},
                                     u \in {Timestamp, JAbsent}}
JsonValues == ValuesOver(Strings)

\* json.load: the value the text is the dump of, or JSONDecodeError
json_load(text) ==
    IF \E v \in JsonValues : json_dump(v) = text
    THEN [raised |-> FALSE, value |-> CHOOSE v \in JsonValues : json_dump(v) = text]
    ELSE [raised |-> TRUE]

\* (variant: a key the record does not have)
history_get_WrongKey(history) == JList(<<>>)

\* history.get("visited_urls", [])
history_get(history) ==
    IF history.visited_urls.t = "absent" THEN JList(<<>>) ELSE history.visited_urls

\* set(x): the items of a list, the characters of a string; TypeError for
\* null and a number
set(x) ==
    CASE x.t = "list" -> [raised |-> FALSE, set |-> {x.items[k] : k \in DOMAIN x.items}]
      [] x.t = "str" -> [raised |-> FALSE, set |-> {<<x.s[k]>> : k \in DOMAIN x.s}]
      [] OTHER -> [raised |-> TRUE]

\* _load_history on the text of the file: nothing is done without a file;
\* any exception (JSONDecodeError, AttributeError of .get on a value that
\* is no object, TypeError of set) empties visited_urls
_load_history_text(file, visited) ==
    IF ~file.exists THEN visited
    ELSE LET history == json_load(file.text)
         IN  IF history.raised THEN {}
             ELSE IF history.value.t # "object" THEN {}
             ELSE LET urls == set(history_get(history.value))
                  IN  IF urls.raised THEN {} ELSE urls.set

\* the files a first process may find: none, an empty one, one cut off, or
\* the dump of a value
InitialFiles ==
    {NoFile, File(<<>>), File(<<Punct("{"), KeyToken("visited_urls"), Punct("[")>>)}
        \cup {File(json_dump(v)) : v \in ValuesOver(HistoryURLs)}

\* handle, line 113
Load ==
    /\ store.pc = "start"
    /\ store' = [store EXCEPT
                   !.pc = "loaded",
                   !.visited_urls = _load_history_text(history_path, @)]
    /\ loaded_from' = history_path
    /\ UNCHANGED <<handler_vars, web_vars, url_text, url_norm, cleaner, anchors,
                   extracted, analyze_vars, index_vars, history_path, before_save>>

\* _crawl_bfs, lines 191-192: a URL that is not in visited_urls is added
Visit ==
    /\ store.pc \in {"loaded", "crawling"}
    /\ Cardinality(store.visited_urls) < MaxVisited
    /\ \E url \in HistoryURLs \ store.visited_urls :
          store' = [store EXCEPT !.pc = "crawling",
                                 !.visited_urls = @ \cup {url}]
    /\ UNCHANGED <<handler_vars, web_vars, url_text, url_norm, cleaner, anchors,
                   extracted, analyze_vars, index_vars, history_path, loaded_from, before_save>>

\* _save_history up to open(history_path, 'w') (lines 468-476), called at
\* the end of the crawl (line 125) or from the KeyboardInterrupt branch
\* (line 144), which may be before the load: the record is built with the
\* list in some order and the file is created or truncated; or open raises
\* OSError, a warning is printed and the file is as it was
SaveOpen ==
    /\ store.pc \in {"start", "loaded", "crawling"}
    /\ before_save' = history_path
    /\ \/ \E l \in Lists(store.visited_urls) :
             /\ store' = [store EXCEPT !.pc = "writing",
                                       !.history = json_dump(HistoryObject(l))]
             /\ history_path' = File(<<>>)
       \/ /\ store' = [store EXCEPT !.pc = "ended"]
          /\ history_path' = history_path
    /\ UNCHANGED <<handler_vars, web_vars, url_text, url_norm, cleaner, anchors,
                   extracted, analyze_vars, index_vars, loaded_from>>

\* json.dump (line 477) writes the next piece of the text
SaveWrite ==
    /\ store.pc = "writing"
    /\ Len(history_path.text) < Len(store.history)
    /\ history_path' = File(SubSeq(store.history, 1, Len(history_path.text) + 1))
    /\ UNCHANGED <<handler_vars, web_vars, url_text, url_norm, cleaner, anchors,
                   extracted, analyze_vars, index_vars, store, loaded_from, before_save>>

\* the with block is left with the whole text written
SaveClose ==
    /\ store.pc = "writing"
    /\ history_path.text = store.history
    /\ store' = [store EXCEPT !.pc = "saved"]
    /\ UNCHANGED <<handler_vars, web_vars, url_text, url_norm, cleaner, anchors,
                   extracted, analyze_vars, index_vars, history_path, loaded_from, before_save>>

\* the process is stopped while the file is open: a KeyboardInterrupt,
\* which except Exception (line 478) does not catch, or a kill
SaveStopped ==
    /\ store.pc = "writing"
    /\ store' = [store EXCEPT !.pc = "stopped"]
    /\ UNCHANGED <<handler_vars, web_vars, url_text, url_norm, cleaner, anchors,
                   extracted, analyze_vars, index_vars, history_path, loaded_from, before_save>>

\* cli.main once more: a new CrawlHandler
NewProcess ==
    /\ store.pc \in {"saved", "stopped", "ended"}
    /\ store' = [NewStore EXCEPT
                   !.saved = IF store.pc = "saved"
                             THEN [some |-> TRUE, set |-> store.visited_urls]
                             ELSE NotSaved]
    /\ loaded_from' = NoFile
    /\ before_save' = NoFile
    /\ UNCHANGED <<handler_vars, web_vars, url_text, url_norm, cleaner, anchors,
                   extracted, analyze_vars, index_vars, history_path>>

HistoryNext ==
    \/ Load
    \/ Visit
    \/ SaveOpen
    \/ SaveWrite
    \/ SaveClose
    \/ SaveStopped
    \/ NewProcess

\* a handler process and the history file it finds
HistoryInit ==
    /\ HandlerInit /\ history_file = MissingFile /\ worker_limit = MAX_WORKERS
    /\ WebClientInit(default_delay)
    /\ ToolsIdle /\ IndexIdle
    /\ history_path \in InitialFiles
    /\ store = NewStore
    /\ loaded_from = NoFile
    /\ before_save = NoFile

HistorySpec == HistoryInit /\ [][HistoryNext]_vars

\* ------------------------------------------------- the IndexManager alone

\* IndexManager.delete: the records of another id are kept, in their order
IndexDelete(datasets_, id) == SelectSeq(datasets_, LAMBDA ds : dataset_id(ds) # id)

\* the records given to add: names that differ in case and in a blank or an
\* underscore, found on pages of three hosts, two of which differ in a dot
\* and an underscore
DatasetNames == {<<"N">>, <<"n">>, <<"n", " ">>, <<"n", "_">>}
Datasets ==
    {[name |-> n, source_url |-> u, local_path |-> safe_name(n),
      files |-> <<filename(FileD)>>] :
        n \in DatasetNames,
        u \in {PageB, PageOther, U("ex_org", "b", "", FALSE, FALSE)}}

\* IndexManager.add(dataset)
IndexManager_add ==
    \E dataset \in Datasets :
        /\ datasets' = IndexAdd(datasets, dataset)
        /\ index_call' = [op |-> "add", dataset |-> dataset, id |-> dataset_id(dataset),
                          before |-> datasets, result |-> TRUE]
        /\ UNCHANGED <<handler_vars, web_vars, history_vars, url_text, url_norm,
                       cleaner, anchors, extracted, analyze_vars>>

\* IndexManager.delete(dataset_id): True when a record was removed
IndexManager_delete ==
    \E id \in {dataset_id(d) : d \in Datasets} :
        /\ datasets' = IndexDelete(datasets, id)
        /\ index_call' = [op |-> "delete", dataset |-> <<>>, id |-> id,
                          before |-> datasets,
                          result |-> Len(IndexDelete(datasets, id)) < Len(datasets)]
        /\ UNCHANGED <<handler_vars, web_vars, history_vars, url_text, url_norm,
                       cleaner, anchors, extracted, analyze_vars>>

IndexNext == IndexManager_add \/ IndexManager_delete

IndexSpec == Init /\ [][IndexNext]_vars

\* ------------------------------------------------------ the specification

Next ==
    \/ ParseIntent
    \/ IntentFailure
    \/ LoadHistory
    \/ Filter
    \/ Submit
    \/ \E i \in DOMAIN tasks : Collect(i)
    \/ EndLevel
    \/ SaveHistory
    \/ Summarize
    \/ KeyboardInterrupt
    \/ Shutdown
    \/ InterruptSave
    \/ Restart
    \/ \E i \in DOMAIN tasks : StartTask(i)
    \/ \E i \in DOMAIN tasks : FetchPage(i)
    \/ \E i \in DOMAIN tasks : AnalyzePage(i)
    \/ \E i \in DOMAIN tasks : DownloadFile(i)
    \/ \E i \in DOMAIN tasks : Register(i)

Spec == Init /\ [][Next]_vars

\* every thread that can take a step eventually takes one
FairSpec == Spec /\ WF_vars(Next)

\* ----------------------------------------------------------------- claims

\* the futures submitted for the normalized URL n
TasksOf(n) == {i \in DOMAIN tasks : normalize_url(tasks[i].url) = n}

\* C1: across a run at most one page task is dispatched for every normalized
\* URL, whoever linked it and at whatever level, and a dispatched URL is in
\* the visited set
C1_DispatchedOnce ==
    \A i \in DOMAIN tasks :
        /\ TasksOf(normalize_url(tasks[i].url)) = {i}
        /\ normalize_url(tasks[i].url) \in visited_urls

\* C1 witness: the frontier of level 2 holds X from both B and C (and the
\* root, linked by C), and the one task of X has run
C1_Witness ==
    /\ depth = 2
    /\ current_level \in {<<PageX, PageX, RootA>>, <<PageX, RootA, PageX>>}
    /\ \E i \in DOMAIN tasks : tasks[i].url = PageX /\ tasks[i].st = "done"

\* C2: every page task has a depth in 0..max_depth
C2_DepthBound ==
    \A i \in DOMAIN tasks :
        /\ 0 <= tasks[i].depth
        /\ tasks[i].depth <= intent.max_depth
        /\ (tasks[i].depth = 0) = (tasks[i].url = intent.url)

\* C2 witness: the last level returned follow-links, the loop has ended and
\* none of them was dispatched
C2_Witness ==
    /\ pc = "returned"
    /\ depth = intent.max_depth + 1
    /\ current_level # <<>>
    /\ \E i \in DOMAIN tasks : tasks[i].depth = intent.max_depth /\ tasks[i].gave
    /\ \A k \in DOMAIN current_level : TasksOf(normalize_url(current_level[k])) = {}

\* C3: while a task of some level has not finished, no task of a deeper
\* level exists and the filter loop of the next level is not running
C3_LevelBarrier ==
    /\ \A i, j \in DOMAIN tasks :
          tasks[i].depth < tasks[j].depth => Finished(tasks[i])
    /\ pc = "filter" => \A i \in DOMAIN tasks : Finished(tasks[i])

\* C3 witness: level 1 had two tasks and a task of level 2 is running
C3_Witness ==
    /\ Cardinality({i \in DOMAIN tasks : tasks[i].depth = 1}) = 2
    /\ \E j \in DOMAIN tasks : tasks[j].depth = 2 /\ Running(tasks[j])

\* resource r of task i has been left: the next one was entered or the page ended
ResDone(i, r) == r < Len(tasks[i].log) \/ Finished(tasks[i])

HasOk(L) == \E k \in DOMAIN L.outcomes : L.outcomes[k] = "ok"

\* the records of downloaded_resources that name the page url as their source
RecordsOf(url) ==
    {k \in DOMAIN downloaded_resources : downloaded_resources[k].source_url = url}

\* the entries of errors appended by task i for its resource r (0: the page)
ErrorsOf(i, r) == SelectSeq(errors, LAMBDA e : e.by = i /\ e.res = r)

RECURSIVE Picked(_, _, _, _)
\* the urls, from position k on, whose request ended with outcome want
Picked(urls, outcomes, k, want) ==
    IF k > Len(outcomes) THEN <<>>
    ELSE (IF outcomes[k] = want THEN <<urls[k]>> ELSE <<>>)
         \o Picked(urls, outcomes, k + 1, want)

FileEntries(urls) == [k \in DOMAIN urls |-> [name |-> filename(urls[k])]]

\* C4: a record (in downloaded_resources, in the index, in a meta.json)
\* always lists a downloaded file; a resource whose downloads all failed
\* wrote no meta.json and added no record; a resource that was left with a
\* downloaded file wrote exactly one meta.json and added exactly one record
C4_RecordOnlyIfDownloaded ==
    /\ \A k \in DOMAIN downloaded_resources : downloaded_resources[k].files # <<>>
    /\ \A k \in DOMAIN index : index[k].files # <<>>
    /\ \A m \in meta_json : m.files # <<>>
    /\ \A k \in DOMAIN downloaded_resources :
          \E i \in DOMAIN tasks : tasks[i].url = downloaded_resources[k].source_url
    /\ \A i \in DOMAIN tasks :
          /\ \A r \in DOMAIN tasks[i].log :
                LET L == tasks[i].log[r]
                IN  /\ L.meta <= 1 /\ L.added <= 1
                    /\ ~HasOk(L) => L.meta = 0 /\ L.added = 0
                    /\ ResDone(i, r) /\ HasOk(L) => L.meta = 1 /\ L.added = 1
          /\ Cardinality(RecordsOf(tasks[i].url))
                = Cardinality({r \in DOMAIN tasks[i].log : tasks[i].log[r].added = 1})

\* C4 witness: a page ended after both downloads of its resource failed, and
\* nothing was written or registered
C4_Witness ==
    /\ \E i \in DOMAIN tasks :
          /\ tasks[i].st = "done"
          /\ Len(tasks[i].log) = 1
          /\ tasks[i].log[1].outcomes = <<"fail", "fail">>
    /\ downloaded_resources = <<>> /\ index = <<>> /\ meta_json = {}

\* C5: the download URLs of a resource are requested in order whatever the
\* earlier outcomes, all of them once the loop is over; the files list holds
\* the files whose request succeeded, in URL order; the ErrorLog holds one
\* entry per failed request, in URL order
C5_FileFailureIsolated ==
    \A i \in DOMAIN tasks : \A r \in DOMAIN tasks[i].log :
        LET t == tasks[i]
            L == t.log[r]
            ok_files == FileEntries(Picked(L.urls, L.outcomes, 1, "ok"))
            failed == Picked(L.urls, L.outcomes, 1, "fail")
            in_loop == t.st = "download" /\ t.ri = r
        IN  /\ Len(L.outcomes) <= Len(L.urls)
            /\ in_loop => Len(L.outcomes) = t.ui - 1 /\ t.ui <= Len(L.urls)
            /\ ~in_loop => Len(L.outcomes) = Len(L.urls)
            /\ ErrorsOf(i, r) =
                  [k \in DOMAIN failed |-> ErrorEntry("download", failed[k], i, r)]
            /\ (t.ri = r /\ t.st \in {"download", "register"}) => t.files = ok_files
            /\ L.added = 1 =>
                  \E k \in RecordsOf(t.url) : downloaded_resources[k].files = ok_files

\* C5 witness: the first file of a resource was downloaded, the second
\* failed: a record with one file and one ErrorLog entry
C5_Witness ==
    \E i \in DOMAIN tasks :
        /\ tasks[i].st = "done"
        /\ Len(tasks[i].log) = 1
        /\ tasks[i].log[1].urls = <<FileD, FileE>>
        /\ tasks[i].log[1].outcomes = <<"ok", "fail">>
        /\ downloaded_resources # <<>>
        /\ downloaded_resources[1].files = <<[name |-> filename(FileD)]>>
        /\ Len(errors) = 1
        /\ errors[1].url = FileE

\* C6: a page whose fetch failed has exactly one ErrorLog entry, is in the
\* visited set, returned without resources or follow-links; the run goes on:
\* handle returns only after every dispatched page has run to its end
C6_FetchFailureLocal ==
    /\ \A i \in DOMAIN tasks :
          tasks[i].outcome = "fetch_failed" =>
              /\ SelectSeq(errors, LAMBDA e : e.by = i)
                    = <<ErrorEntry("fetch", tasks[i].url, i, 0)>>
              /\ normalize_url(tasks[i].url) \in visited_urls
              /\ tasks[i].st = "done"
              /\ tasks[i].follow_links = <<>> /\ ~tasks[i].gave
              /\ tasks[i].log = <<>> /\ RecordsOf(tasks[i].url) = {}
    /\ pc = "returned" =>
          \A i \in DOMAIN tasks : Finished(tasks[i]) /\ tasks[i].collected
    /\ pc = "failed" => tasks = <<>>

\* C6 witness: in level 1 the fetch of one page failed, the other page gave
\* its follow-links, level 2 was processed and handle returned
C6_Witness ==
    /\ pc = "returned"
    /\ \E i, j, k \in DOMAIN tasks :
          /\ tasks[i].depth = 1 /\ tasks[i].outcome = "fetch_failed"
          /\ tasks[j].depth = 1 /\ tasks[j].gave
          /\ tasks[k].depth = 2 /\ tasks[k].outcome = "returned"

\* C7: a page whose gateway call failed stays in the visited set, entered no
\* resource, has no record, returned no follow-link, and returned normally
C7_GatewayFailureEmptyAnalysis ==
    /\ \A i \in DOMAIN tasks :
          tasks[i].outcome = "gateway_failed" =>
              /\ normalize_url(tasks[i].url) \in visited_urls
              /\ tasks[i].st = "done"
              /\ tasks[i].follow_links = <<>> /\ ~tasks[i].gave
              /\ tasks[i].log = <<>> /\ RecordsOf(tasks[i].url) = {}
    /\ pc = "failed" => tasks = <<>>

\* C7 witness: the gateway call of a page of level 1 failed, and the run went
\* on to level 2 and returned
C7_Witness ==
    /\ pc = "returned"
    /\ \E i, k \in DOMAIN tasks :
          /\ tasks[i].depth = 1 /\ tasks[i].outcome = "gateway_failed"
          /\ tasks[i].collected
          /\ tasks[k].depth = 2 /\ tasks[k].outcome = "returned"

\* C8: every page whose classification failed (the gateway call raised, or
\* its response made _analyze_page raise) has an entry in the ErrorLog
C8_ClassificationFailureLogged ==
    \A i \in DOMAIN tasks :
        tasks[i].outcome \in {"gateway_failed", "analysis_raised"} =>
            \E k \in DOMAIN errors : errors[k].by = i /\ errors[k].kind = "analyze"

\* C9: a page worker that has ended either returned, or failed; a failed one
\* (fetch failure, analysis that raised, exception out of the worker) has an
\* ErrorLog entry for its page and gave no follow-links
C9_WorkerFailureRecorded ==
    \A i \in DOMAIN tasks :
        (Finished(tasks[i])
            /\ tasks[i].outcome \in {"fetch_failed", "analysis_raised", "raised"}) =>
                /\ \E k \in DOMAIN errors : errors[k].by = i /\ errors[k].res = 0
                /\ tasks[i].follow_links = <<>> /\ ~tasks[i].gave

\* C10: once the interrupt was raised, no queued page task starts and no
\* further level is begun
C10_NoNewWorkAfterInterrupt ==
    /\ \A i \in DOMAIN tasks : ~tasks[i].late
    /\ interrupted => pc \in {"shutdown", "interrupt_save", "interrupted"}

\* ---------------------------------------------------------------- C11

C12_ResumesUnfetchedPages ==
    [](( /\ pc = "load_history"
         /\ previous.pending
         /\ intent.max_depth = previous.max_depth)
        => <>(tasks # <<>> \/ interrupted))

\* ---------------------------------------------------------------- C13

\* C13: during a run (from the load of the history to the save) no page
\* task exists for a URL whose normalized form is in the history file the
\* run loaded.
C13_NoRecrawl ==
    (pc \in {"filter", "submit", "wait", "shutdown"} /\ history_file.state = "ok")
        => \A i \in DOMAIN tasks :
                normalize_url(tasks[i].url) \notin history_file.visited_urls

\* the second level, which was linked to a page of the loaded history, has
\* been dispatched
C13_Witness ==
    /\ pc = "wait"
    /\ depth = 1
    /\ history_file = HistoryRecord({PageB})
    /\ \E k \in DOMAIN current_level : normalize_url(current_level[k]) = PageB
    /\ \E i \in DOMAIN tasks : tasks[i].depth = 1 /\ tasks[i].st = "done"

\* ---------------------------------------------------------------- C14

\* C14: a call of fetch or download makes at most max_retries attempts, none
\* after a successful one, returns success exactly when its last attempt
\* succeeded, returns the failure value only after max_retries failed
\* attempts, and never ends with an exception.
C14_BoundedRetryNeverRaises ==
    \A th \in Threads :
        LET c == calls[th]
            n == Len(c.outcomes)
        IN  /\ n <= max_retries
            /\ \A k \in 1..(n - 1) : c.outcomes[k] # "ok"
            /\ c.pc # "raised"
            /\ c.pc = "returned"
                 => /\ n >= 1
                    /\ c.result = "ok" <=> c.outcomes[n] = "ok"
                    /\ c.result = "failed" => n = max_retries

\* ---------------------------------------------------------------- C15

\* the calls of fetch whose first two attempts failed and whose third succeeded
FailFailOk ==
    {th \in Threads :
        /\ calls[th].kind = "fetch"
        /\ calls[th].pc = "returned"
        /\ calls[th].outcomes = <<"RequestException", "RequestException", "ok">>}

\* the requests issued by the call of thread th
RequestsOf(th) == SelectSeq(requests, LAMBDA r : r.th = th)

\* C15 (as stated): such a fetch returns success after exactly 3 attempts,
\* having slept 2^n seconds after failed attempt n (n = 1, 2) and not after
\* the last one.
C15_BackoffFromTwo ==
    \A th \in FailFailOk :
        /\ calls[th].result = "ok"
        /\ Len(RequestsOf(th)) = 3
        /\ calls[th].sleeps = <<2 ^ 1, 2 ^ 2>>

\* C15 (amended): such a fetch returns success after exactly 3 attempts,
\* having slept 2^(n-1) seconds after failed attempt n (n = 1, 2) and not
\* after the last one.
C15_BackoffFromOne ==
    \A th \in FailFailOk :
        /\ calls[th].result = "ok"
        /\ Len(RequestsOf(th)) = 3
        /\ calls[th].sleeps = [n \in 1..2 |-> 2 ^ (n - 1)]
        /\ \A n \in 1..2 :
              RequestsOf(th)[n + 1].t - RequestsOf(th)[n].t >= 2 ^ (n - 1)

C15_Witness == FailFailOk # {}

\* ---------------------------------------------------------------- C16

\* C16: every request of the WebClient that follows another request of the
\* same call, or belongs to a call that began after the other request was
\* issued, is issued at least delay seconds after it.
C16_WaitBeforeEveryRequest ==
    \A k \in 2..Len(requests) :
        (\/ requests[k].th = requests[k - 1].th
         \/ requests[k].seen >= k - 1)
            => requests[k].t - requests[k - 1].t >= delay

\* ---------------------------------------------------------------- C17

\* C17: the first requests of two threads that call the WebClient are
\* issued at least delay seconds apart, however the threads interleave.
C17_TimestampProtected ==
    \A j, k \in DOMAIN requests :
        (j < k /\ requests[j].attempt = 0 /\ requests[k].attempt = 0)
            => requests[k].t - requests[j].t >= delay

\* ---------------------------------------------------------------- C18

\* the failures a page task has recorded outside its resources (res = 0)
\* and at the files of its resource r
RecordedFailures(i, r) ==
    IF r = 0
    THEN IF tasks[i].outcome \in {"fetch_failed", "analysis_raised"} THEN 1 ELSE 0
    ELSE Len(SelectSeq(tasks[i].log[r].outcomes, LAMBDA o : o = "fail"))

\* C18: under every interleaving of the workers no update of the shared
\* structures is lost: errors holds exactly one entry per failure a task
\* recorded, downloaded_resources exactly one record per resource a task
\* registered, visited_urls every URL marked for dispatch; and within a run
\* visited_urls only grows while errors and downloaded_resources only get
\* entries appended, the earlier ones staying as they are.
C18_NoLostUpdate ==
    /\ [](/\ \A k \in DOMAIN errors :
                /\ errors[k].by \in DOMAIN tasks
                /\ errors[k].res <= Len(tasks[errors[k].by].log)
          /\ \A i \in DOMAIN tasks :
                /\ \A r \in 0..Len(tasks[i].log) :
                      Len(ErrorsOf(i, r)) = RecordedFailures(i, r)
                /\ Cardinality(RecordsOf(tasks[i].url))
                     = Cardinality({r \in DOMAIN tasks[i].log :
                                        tasks[i].log[r].added = 1})
                /\ normalize_url(tasks[i].url) \in visited_urls
          /\ \A k \in DOMAIN downloaded_resources :
                \E i \in DOMAIN tasks :
                    tasks[i].url = downloaded_resources[k].source_url
          /\ \A k \in DOMAIN urls_to_visit :
                normalize_url(urls_to_visit[k]) \in visited_urls)
    /\ [][pc # "interrupted"
            => /\ visited_urls \subseteq visited_urls'
               /\ Len(errors') >= Len(errors)
               /\ SubSeq(errors', 1, Len(errors)) = errors
               /\ Len(downloaded_resources') >= Len(downloaded_resources)
               /\ SubSeq(downloaded_resources', 1, Len(downloaded_resources))
                    = downloaded_resources]_vars

\* a level has ended whose two page tasks both recorded a failure, one of
\* them after registering a resource
C18_Witness ==
    /\ pc = "wait"
    /\ LevelComplete
    /\ downloaded_resources # <<>>
    /\ \E j, k \in DOMAIN errors :
          /\ j < k
          /\ errors[j].by # errors[k].by
          /\ tasks[errors[j].by].depth = tasks[errors[k].by].depth
          /\ errors[k].kind = "download"

\* ---------------------------------------------------------------- C19

\* C19: normalize_url applied to its own result returns it unchanged; the
\* result has no "?", no "#" and no trailing "/"; and a URL without query
\* and fragment keeps its key when a trailing slash, a query or a fragment
\* is added to it.
C19_NormalizeIdempotent ==
    /\ Len(url_norm) = 2 => url_norm[2] = url_norm[1]
    /\ \A k \in DOMAIN url_norm :
          /\ \A j \in DOMAIN url_norm[k] : url_norm[k][j] \notin {"?", "#"}
          /\ url_norm[k][Len(url_norm[k])] # "/"
    /\ (/\ url_norm # <<>>
        /\ \A j \in DOMAIN url_text : url_text[j] \notin {"?", "#"})
          => \A t \in {<<"/">>, <<"?", "b">>, <<"#", "b">>} :
                normalize_url_text(url_text \o t) = url_norm[1]

\* ---------------------------------------------------------------- C20

\* the distinct download links of the page, and its distinct page links that
\* a call with the given same_domain_only keeps
DownloadAnchors ==
    {normalize_url(anchors[k]) : k \in {j \in DOMAIN anchors :
                                    _is_download_link(normalize_url(anchors[j]))}}
PageAnchors(same_domain_only) ==
    {normalize_url(anchors[k]) : k \in {j \in DOMAIN anchors :
        /\ ~_is_download_link(normalize_url(anchors[j]))
        /\ same_domain_only => netloc(anchors[j]) = netloc(RootA)}}

\* C20: the list _extract_links returns has at most max_links entries and
\* no URL twice; its download links come before its page links; when the
\* page has at most max_links distinct download links all of them are in
\* it; and the page links take exactly what the download links leave of
\* the budget, or all of them when they are fewer.
C20_DownloadLinksNotCut ==
    \A e \in {extracted[k] : k \in DOMAIN extracted} :
        LET links == e.links
            downloads == {k \in DOMAIN links : links[k].type = "download"}
            pages == {k \in DOMAIN links : links[k].type = "page"}
            cap == cleaner.max_links
        IN  /\ Len(links) <= cap
            /\ \A j, k \in DOMAIN links : j # k => links[j].url # links[k].url
            /\ \A k \in downloads : links[k].url \in DownloadAnchors
            /\ \A k \in pages : links[k].url \in PageAnchors(e.same_domain_only)
            /\ \A j \in downloads, k \in pages : j < k
            /\ Cardinality(DownloadAnchors) <= cap
                 => {links[k].url : k \in downloads} = DownloadAnchors
            /\ Cardinality(pages)
                 = Min(cap - Cardinality(downloads),
                       Cardinality(PageAnchors(e.same_domain_only)))

\* a page whose download links fit the budget and follow a page link, and
\* whose page links do not all fit in what is left
C20_Witness ==
    /\ extracted # <<>>
    /\ DownloadAnchors # {}
    /\ Cardinality(DownloadAnchors) <= cleaner.max_links
    /\ Len(extracted[1].links) = cleaner.max_links
    /\ Cardinality(PageAnchors(extracted[1].same_domain_only))
         > cleaner.max_links - Cardinality(DownloadAnchors)
    /\ ~_is_download_link(normalize_url(anchors[1]))
    /\ extracted[1].links[1].type = "download"

\* ---------------------------------------------------------------- C21

\* C21: every download link the cleaner returned for a page is in the
\* DOWNLOAD_LINKS list that _analyze_page shows to the gateway.
C21_DownloadLinksOffered ==
    offer # <<>>
        => \A k \in DOMAIN clean_links :
              clean_links[k].type = "download"
                  => \E j \in DOMAIN offer[1].download_links :
                        offer[1].download_links[j].url = clean_links[k].url

\* ---------------------------------------------------------------- C23

\* the URLs of the offered list that the indices name, out-of-range indices
\* left out
Named(indices, list) ==
    LET valid == SelectSeq(indices, LAMBDA i : 0 <= i /\ i <= Len(list) - 1)
    IN  [k \in DOMAIN valid |-> list[valid[k] + 1].url]

\* C23: for a response of the right shape _analyze_page does not raise;
\* follow_links are the page links named by the in-range follow_indices, in
\* the order given; a resource is kept, with the download links named by
\* its in-range download_indices, exactly when it has such an index; so
\* every URL of the analysis is in the offered list of its kind.
C23_IndicesValidated ==
    \A e \in {analyzed[k] : k \in DOMAIN analyzed} :
        e.response.kind = "json"
            => LET download_links == offer[1].download_links
                   page_links == offer[1].page_links
                   res == e.response.resources
               IN  /\ ~e.raised
                   /\ e.result.follow_links
                        = Named(e.response.follow_indices, page_links)
                   /\ \A k \in DOMAIN e.result.follow_links :
                        \E j \in DOMAIN page_links :
                            page_links[j].url = e.result.follow_links[k]
                   /\ IF res # <<>> /\ Named(res[1].download_indices, download_links) # <<>>
                      THEN /\ Len(e.result.resources) = 1
                           /\ e.result.resources[1].download_urls
                                = Named(res[1].download_indices, download_links)
                      ELSE e.result.resources = <<>>

\* a response naming an out-of-range index before an in-range one in both
\* lists has been resolved
C23_Witness ==
    /\ analyzed # <<>>
    /\ analyzed[1].response.kind = "json"
    /\ analyzed[1].response.follow_indices = <<MaxIndex, 0>>
    /\ Len(offer[1].page_links) = MaxIndex
    /\ analyzed[1].response.resources # <<>>
    /\ analyzed[1].response.resources[1].download_indices = <<-1, 1>>
    /\ Len(analyzed[1].result.follow_links) = 1
    /\ Len(analyzed[1].result.resources) = 1

\* ---------------------------------------------------------------- C22

\* the hrefs of the page of another host than the base URL
ForeignAnchors == {k \in DOMAIN anchors : netloc(anchors[k]) # netloc(RootA)}

\* C22: with same_domain_only every page link returned has the host of the
\* base URL; and as long as the budget is not used up, every download link
\* of the page is returned whatever its host and, without
\* same_domain_only, every page link of another host too.
C22_SameDomainPagesOnly ==
    \A e \in {extracted[k] : k \in DOMAIN extracted} :
        LET returned == {e.links[k].url : k \in DOMAIN e.links}
            foreign == {normalize_url(anchors[k]) : k \in ForeignAnchors}
        IN  /\ e.same_domain_only
              => \A k \in DOMAIN e.links :
                    e.links[k].type = "page"
                        => netloc(e.links[k].url) = netloc(RootA)
            /\ Len(e.links) < cleaner.max_links
              => \A u \in foreign :
                    (_is_download_link(u) \/ ~e.same_domain_only)
                        => u \in returned
            /\ \A k \in DOMAIN e.links :
                  e.links[k].type = "download" <=> _is_download_link(e.links[k].url)

\* a page with a page link and a download link of another host has been
\* cleaned with same_domain_only: the download link alone was returned
C22_Witness ==
    /\ extracted # <<>>
    /\ extracted[1].same_domain_only
    /\ \E j, k \in ForeignAnchors :
          /\ anchors[j] = PageOther
          /\ anchors[k] = FileE
    /\ \E k \in DOMAIN extracted[1].links : extracted[1].links[k].url = FileE
    /\ \A k \in DOMAIN extracted[1].links : extracted[1].links[k].url # PageOther

\* ---------------------------------------------------------------- C24

\* the URLs of the futures of the level in progress, in submit order
LevelUrls ==
    LET n == Cardinality(LevelTasks)
    IN  [k \in 1..n |-> tasks[Len(tasks) - n + k].url]

Prefix(s, t) == Len(s) <= Len(t) /\ s = SubSeq(t, 1, Len(s))

\* C24: at no time do more page tasks execute than the smaller of
\* MAX_WORKERS and the number of URLs of the level that passed the visited
\* filter; and the level's tasks are those URLs, one task each in their
\* order, all of them once the submit loop has ended.
C24_PoolBound ==
    /\ Cardinality({i \in DOMAIN tasks : Running(tasks[i])}) <= worker_limit
    /\ pc \in {"submit", "wait", "shutdown"}
         => /\ Cardinality({i \in DOMAIN tasks : Running(tasks[i])})
                 <= Len(urls_to_visit)
            /\ Prefix(LevelUrls, urls_to_visit)
            /\ \A j, k \in DOMAIN urls_to_visit :
                  normalize_url(urls_to_visit[j]) = normalize_url(urls_to_visit[k])
                      => j = k
            /\ \A k \in DOMAIN urls_to_visit :
                  \E j \in DOMAIN current_level : current_level[j] = urls_to_visit[k]
    /\ pc = "wait" => LevelUrls = urls_to_visit

\* a level of two URLs runs in a pool of one worker: both are submitted,
\* one executes and the other waits in the queue
C24_Witness ==
    /\ pc = "wait"
    /\ worker_limit = 1
    /\ Len(urls_to_visit) = 2
    /\ \E i, j \in LevelTasks : Running(tasks[i]) /\ tasks[j].st = "queued"

\* ---------------------------------------------------------------- C25

\* _crawl_bfs is inside its for loop
InLevel == pc \in {"filter", "submit", "wait"}

\* the levels for which tasks were dispatched
LevelsProcessed == {tasks[i].depth : i \in DOMAIN tasks}

\* C25: when every page worker ends, a level in progress leads to the end
\* of _crawl_bfs (or to the interrupt handler); _crawl_bfs ends exactly
\* when the frontier is empty, when the filter left no URL of it, or when
\* the depth has passed max_depth, and it dispatches at most max_depth + 1
\* levels.
C25_Terminates ==
    /\ InLevel ~> pc \in {"save_history", "interrupt_save"}
    /\ [](/\ InLevel => depth <= intent.max_depth
          /\ pc = "filter" => current_level # <<>>
          /\ pc \in {"submit", "wait"} => urls_to_visit # <<>>
          /\ Cardinality(LevelsProcessed) <= intent.max_depth + 1)
    /\ [][pc' = "save_history" /\ pc # "save_history"
            => \/ pc = "filter" /\ urls_to_visit' = <<>>
               \/ pc = "wait" /\ current_level' = <<>>
               \/ pc = "wait" /\ depth' = intent.max_depth + 1]_vars

\* max_depth + 1 levels were dispatched and the last one left a frontier:
\* _crawl_bfs has ended on the depth
C25_Witness ==
    /\ pc = "save_history"
    /\ intent.max_depth = MaxDepth
    /\ depth = MaxDepth + 1
    /\ Cardinality(LevelsProcessed) = MaxDepth + 1
    /\ current_level # <<>>

\* ---------------------------------------------------------------- C26

\* C26: handle raises exactly on an intent answer that is an error or has
\* no url or an empty one; it then has dispatched no page, recorded no
\* resource, neither read the history into visited_urls nor written the
\* history file, the index or a meta.json, and does nothing further.
C26_IntentFailureAborts ==
    /\ [](pc = "failed" <=> rejected # NoAnswer)
    /\ [](rejected # NoAnswer
            => \/ rejected.kind = "error"
               \/ ~rejected.has_url
               \/ rejected.url = EmptyUrl)
    /\ [](pc = "failed"
            => /\ tasks = <<>>
               /\ visited_urls = {}
               /\ downloaded_resources = <<>>
               /\ errors = <<>>
               /\ summary = NoSummary)
    /\ [](pc = "load_history" \/ InLevel => intent.url \in RootURLs)
    /\ [][pc' = "failed" /\ pc # "failed"
            => UNCHANGED <<history_file, index, meta_json, visited_urls, tasks>>]_vars
    /\ [][pc = "failed" => UNCHANGED handler_vars]_vars

\* the gateway answered with an empty url while a history record was on
\* disk: handle has raised
C26_Witness ==
    /\ pc = "failed"
    /\ rejected.kind = "json"
    /\ rejected.has_url
    /\ rejected.url = EmptyUrl
    /\ history_file = HistoryRecord({PageB})

\* ---------------------------------------------------------------- C27

\* C27: a _save_history that ran to its end leaves the record of the
\* visited set, its URLs in some order, and the _load_history of the next
\* process makes of it the same set, whatever the order.
C27_HistoryRoundTrip ==
    /\ store.pc = "saved"
         => \E l \in Lists(store.visited_urls) :
               history_path = File(json_dump(HistoryObject(l)))
    /\ store.pc = "loaded" /\ store.saved.some
         => store.visited_urls = store.saved.set

\* three URLs were saved, longest first, and loaded by the next process
C27_Witness ==
    /\ store.pc = "loaded"
    /\ store.saved.some
    /\ store.saved.set = HistoryURLs
    /\ loaded_from = File(json_dump(HistoryObject(
          <<UrlText(<<"/", "b", "/", "b">>), UrlText(<<>>), UrlText(<<"/", "b">>)>>)))

\* ---------------------------------------------------------------- C28

\* the file holds an object whose visited_urls is a list
WellShaped(file) ==
    /\ file.exists
    /\ ~json_load(file.text).raised
    /\ json_load(file.text).value.t = "object"
    /\ json_load(file.text).value.visited_urls.t = "list"

\* C28: after _load_history of a file that is missing, unparsable or of
\* another shape than a record with a list, visited_urls is empty.
C28_BadHistoryLoadsEmpty ==
    store.pc = "loaded" /\ ~WellShaped(loaded_from) => store.visited_urls = {}

\* ---------------------------------------------------------------- C29

\* C29: from the open of _save_history on, also when the process is stopped
\* in the middle, the file is what it was before the save or the whole new
\* record.
C29_AtomicOverwrite ==
    store.pc \in {"writing", "stopped", "saved"}
        => history_path \in {before_save, File(store.history)}

\* ---------------------------------------------------------------- C30

\* the kinds of failure the tasks of the run ended with or logged
FailedPages == {i \in DOMAIN tasks : tasks[i].outcome \in {"fetch_failed", "gateway_failed", "raised"}}

C31_SummaryCountsThisRun ==
    pc = "returned"
        => /\ summary.pages_visited = Len(tasks)
           /\ summary.resources_downloaded = Len(downloaded_resources)
           /\ summary.errors = errors

\* ---------------------------------------------------------------- C32

\* the follow-links the finished tasks of the level hold and the loop has
\* not yet taken
Uncollected == {i \in LevelTasks : Finished(tasks[i]) /\ ~tasks[i].collected}

\* C32: next_level changes only by the as_completed loop taking the result
\* of one finished task, whose follow-links are appended whole, or by being
\* emptied before a level; what a finished task returned stays as it is
\* until it is taken; and the frontier of the next level is next_level once
\* every task of the level has been taken.
C32_FrontierIsFollowLinks ==
    /\ [][\A i \in DOMAIN tasks :
            i \in DOMAIN tasks' /\ tasks'[i].collected /\ ~tasks[i].collected
                => /\ Finished(tasks[i])
                   /\ next_level' = next_level \o tasks[i].follow_links]_vars
    /\ [][next_level' # next_level
            => \/ next_level' = <<>>
               \/ \E i \in Uncollected : tasks'[i].collected]_vars
    /\ [][\A i \in Uncollected :
            i \in DOMAIN tasks' /\ ~tasks'[i].collected
                => tasks'[i].follow_links = tasks[i].follow_links]_vars
    /\ [][depth' = depth + 1
            => /\ current_level' = next_level
               /\ \A i \in LevelTasks : tasks[i].collected]_vars

\* the two pages of level 1 both returned follow-links and the one submitted
\* second was taken first: the frontier of level 2 holds the links of both
C32_Witness ==
    /\ depth = 2
    /\ current_level = <<PageX, RootA, PageX>>
    /\ \A i \in DOMAIN tasks : tasks[i].depth = 1 => tasks[i].gave

\* ---------------------------------------------------------------- C33

\* the page links the cleaner extracts from the page of task i
PageCandidates(i) ==
    LET links == OfType(_extract_links(Web(tasks[i].url), tasks[i].url, TRUE), "page")
    IN  {links[k].url : k \in DOMAIN links}

SeqRange(s) == {s[k] : k \in DOMAIN s}

\* C33: the follow-links of a page are among the page links extracted from
\* it; every URL of a frontier and every dispatched page has the host of
\* the root URL, and none is a download link.
C33_GatewayOnlyNarrows ==
    /\ \A i \in DOMAIN tasks : SeqRange(tasks[i].follow_links) \subseteq PageCandidates(i)
    /\ \A u \in SeqRange(next_level) \cup SeqRange(current_level)
                    \cup {tasks[i].url : i \in DOMAIN tasks} :
          /\ netloc(u) = netloc(intent.url)
          /\ ~_is_download_link(u)

\* the page B, which links a page and two files, one of another host, has
\* had a file downloaded and returned the page, which was dispatched; the
\* root links a page of another host
C33_Witness ==
    /\ \E k \in DOMAIN Web(intent.url) : netloc(Web(intent.url)[k]) # netloc(intent.url)
    /\ \E i, j \in DOMAIN tasks :
          /\ tasks[i].url = PageB /\ tasks[i].gave /\ tasks[i].log # <<>>
          /\ tasks[j].url = PageX /\ tasks[j].depth = 2 /\ tasks[j].st = "done"

\* ---------------------------------------------------------------- C34

\* the positions of the records of an id in a list of datasets
WithId(list, id) == {k \in DOMAIN list : dataset_id(list[k]) = id}

\* C34: the index holds at most one record per id; add of a record whose id
\* is in the index puts the record in the place of the one of that id and
\* changes nothing else, add of another id appends the record; delete
\* removes the record of the id and nothing else.
C34_OneRecordPerId ==
    /\ \A i, j \in DOMAIN datasets :
          dataset_id(datasets[i]) = dataset_id(datasets[j]) => i = j
    /\ index_call.op = "add"
         => LET before == index_call.before
            IN  IF WithId(before, index_call.id) # {}
                THEN /\ Len(datasets) = Len(before)
                     /\ \A k \in DOMAIN before :
                           datasets[k] = IF k \in WithId(before, index_call.id)
                                         THEN index_call.dataset ELSE before[k]
                ELSE /\ Len(datasets) = Len(before) + 1
                     /\ datasets = before \o <<index_call.dataset>>
    /\ index_call.op = "delete"
         => /\ WithId(datasets, index_call.id) = {}
            /\ Len(datasets) = Len(index_call.before)
                                 - Cardinality(WithId(index_call.before, index_call.id))
            /\ index_call.result = (WithId(index_call.before, index_call.id) # {})

\* a record of the name "N" was replaced, in the first of two places, by
\* one of the name "n" of the same host
C34_Witness ==
    /\ index_call.op = "add"
    /\ Len(index_call.before) = 2
    /\ index_call.before[1].name = <<"N">>
    /\ index_call.dataset.name = <<"n">>
    /\ datasets[1] = index_call.dataset
    /\ datasets[2] = index_call.before[2]
    /\ Len(datasets) = 2

\* ---------------------------------------------------------------- C35

\* C35: a file is reported as a download failure only after max_retries
\* requests, and a downloaded one took max_retries requests at most.
C35_FileDownloadsRetried ==
    \A i \in DOMAIN tasks : \A r \in DOMAIN tasks[i].log :
        \A k \in DOMAIN tasks[i].log[r].outcomes :
            /\ tasks[i].log[r].outcomes[k] = "fail"
                 => tasks[i].log[r].tries[k] = max_retries
            /\ tasks[i].log[r].tries[k] <= max_retries

\* ---------------------------------------------------------------- C36

\* C36: no step of handle takes a URL out of a readable history file.
C36_HistoryOnlyGrows ==
    [][history_file.state = "ok"
         => /\ history_file'.state = "ok"
            /\ history_file.visited_urls \subseteq history_file'.visited_urls]_vars

\* ---------------------------------------------------------------- C37

\* C37: every URL a save adds to the history file is the URL of a page task
\* of the run that has been started and has ended.
C37_PersistedMeansAttempted ==
    [][history_file' # history_file
         => \A u \in history_file'.visited_urls \ history_file.visited_urls :
               \E i \in DOMAIN tasks :
                  /\ normalize_url(tasks[i].url) = u
                  /\ Finished(tasks[i])]_vars

\* ---------------------------------------------------------------- C38

\* the positions of handle after the with block of the last level
AfterPool == {"save_history", "summarize", "returned", "interrupt_save",
              "interrupted"}
\* the positions of handle after _save_history has run
AfterSave == {"summarize", "returned", "interrupted"}

\* a step of the run after its save leaves what was saved as it is
SavedStateKept ==
    (pc \in AfterSave /\ pc' \in AfterSave)
       => UNCHANGED <<history_file, visited_urls, downloaded_resources, errors>>

MirrorAnswers ==
    {[kind |-> "json", has_url |-> TRUE, url |-> RootM, has_depth |-> hd,
      max_depth |-> d] : hd \in BOOLEAN, d \in 0..MaxDepth}

\* handle, line 105, for a prompt that names the second site
ParseIntentMirror ==
    /\ pc = "parse_intent"
    /\ \E result \in MirrorAnswers :
          LET r == _parse_intent(result)
          IN  /\ ~r.raised
              /\ intent' = [url |-> r.url, max_depth |-> r.max_depth]
    /\ pc' = "load_history"
    /\ UNCHANGED <<previous, worker_limit, rejected, web_vars, lib_vars, visited_urls, errors, downloaded_resources, index, meta_json,
                   history_file, depth, current_level, fi, urls_to_visit,
                   next_level, tasks, interrupted, summary>>

\* a run of handle on the second site, without interrupts
MirrorNext ==
    \/ ParseIntentMirror
    \/ LoadHistory
    \/ Filter
    \/ Submit
    \/ \E i \in DOMAIN tasks : Collect(i)
    \/ EndLevel
    \/ SaveHistory
    \/ Summarize
    \/ \E i \in DOMAIN tasks : StartTask(i)
    \/ \E i \in DOMAIN tasks : FetchPage(i)
    \/ \E i \in DOMAIN tasks : AnalyzePage(i)
    \/ \E i \in DOMAIN tasks : DownloadFile(i)
    \/ \E i \in DOMAIN tasks : Register(i)

MirrorSpec == Init /\ [][MirrorNext]_vars

\* the dataset directory of the resource a task is materializing
InDownloadResource(t) == t.st \in {"download", "register"}
DatasetPathOf(t) == safe_name(t.resources[t.ri].name.chars)

\* C39: no two page tasks are inside _download_resource for the same dataset
\* directory at one time, no two resources registered in a run have the same
\* directory, and the meta.json of every resource registered in the run
\* describes that resource.
C39_OwnDatasetDirectory ==
    /\ \A i, j \in DOMAIN tasks :
          (i # j /\ InDownloadResource(tasks[i]) /\ InDownloadResource(tasks[j]))
             => DatasetPathOf(tasks[i]) # DatasetPathOf(tasks[j])
    /\ \A k, l \in DOMAIN downloaded_resources :
          k # l => downloaded_resources[k].local_path
                      # downloaded_resources[l].local_path
    /\ \A k \in DOMAIN downloaded_resources : downloaded_resources[k] \in meta_json

\* ---------------------------------------------------------------- C40

\* the entries of a files list name pairwise different files of the
\* dataset directory
DistinctFiles(files) ==
    \A a, b \in DOMAIN files : a # b => files[a].name # files[b].name

\* C40: in every dataset record, of the run's resource list, of the index
\* and of a meta.json, the entries of files name different files, so that
\* the record lists as many files as its downloads have put on disk.
C40_OneEntryPerFile ==
    /\ \A k \in DOMAIN downloaded_resources :
          DistinctFiles(downloaded_resources[k].files)
    /\ \A k \in DOMAIN index : DistinctFiles(index[k].files)
    /\ \A m \in meta_json : DistinctFiles(m.files)

====
